---- MODULE Spec2Model ----
(***************************************************************************)
(* ts-instrumentality: the filesystem path abstraction ("road").          *)
(*                                                                         *)
(* The model follows the documented variant of the road module (the one    *)
(* with the `mutable` flag, `assert_mutable` and `join`).  The operating   *)
(* system is modelled as a tree of entries addressed by absolute paths     *)
(* (sequences of segments; the root is the empty sequence) with the POSIX  *)
(* meaning of the calls the module makes: access/exists follow a symbolic  *)
(* link, lstat/rename/unlink/symlink do not.                               *)
(***************************************************************************)
EXTENDS Integers, Sequences, FiniteSets, TLC

(***************************************************************************)
(* Bounds of the model.                                                    *)
(***************************************************************************)
MaxSteps == 2       \* calls and external modifications per behaviour
MaxDepth == 3       \* deepest path of the filesystem
MaxHops  == 2       \* symbolic links followed by one path lookup

(***************************************************************************)
(* fs.constants: the file-type bits of a mode.                             *)
(***************************************************************************)
S_IFMT   == 61440   \* 0o170000
S_IFREG  == 32768   \* 0o100000
S_IFDIR  == 16384   \* 0o040000
S_IFBLK  == 24576   \* 0o060000
S_IFCHR  == 8192    \* 0o020000
S_IFLNK  == 40960   \* 0o120000
S_IFIFO  == 4096    \* 0o010000
S_IFSOCK == 49152   \* 0o140000

\* mode & S_IFMT: S_IFMT is the four bits 12..15, so the conjunction keeps
\* exactly those bits of the mode.
TypeBits(mode) == ((mode \div 4096) % 16) * 4096

\* road_t and the error of the default branch
Kinds == {"File", "Folder", "BlockDevice", "CharacterDevice",
          "SymbolicLink", "Fifo", "Socket"}
UnusableKinds == {"BlockDevice", "CharacterDevice", "Fifo", "Socket"}
UnknownMode == "UnknownMode"

\* a roadType that switches over the mode itself
roadType_WholeMode(mode) ==
  LET bits == mode IN
  IF bits = S_IFREG THEN "File"
  ELSE IF bits = S_IFDIR THEN "Folder"
  ELSE IF bits = S_IFBLK THEN "BlockDevice"
  ELSE IF bits = S_IFCHR THEN "CharacterDevice"
  ELSE IF bits = S_IFLNK THEN "SymbolicLink"
  ELSE IF bits = S_IFIFO THEN "Fifo"
  ELSE IF bits = S_IFSOCK THEN "Socket"
  ELSE UnknownMode

\* roadType applied to a raw mode: the switch over mode & S_IFMT
roadType(mode) ==
  LET bits == TypeBits(mode) IN
  IF bits = S_IFREG THEN "File"
  ELSE IF bits = S_IFDIR THEN "Folder"
  ELSE IF bits = S_IFBLK THEN "BlockDevice"
  ELSE IF bits = S_IFCHR THEN "CharacterDevice"
  ELSE IF bits = S_IFLNK THEN "SymbolicLink"
  ELSE IF bits = S_IFIFO THEN "Fifo"
  ELSE IF bits = S_IFSOCK THEN "Socket"
  ELSE UnknownMode

ModeOf(kind) ==
  CASE kind = "File" -> S_IFREG + 420            \* 0o644
    [] kind = "Folder" -> S_IFDIR + 493          \* 0o755
    [] kind = "BlockDevice" -> S_IFBLK + 432     \* 0o660
    [] kind = "CharacterDevice" -> S_IFCHR + 438 \* 0o666
    [] kind = "SymbolicLink" -> S_IFLNK + 511    \* 0o777
    [] kind = "Fifo" -> S_IFIFO + 420
    [] kind = "Socket" -> S_IFSOCK + 493

(***************************************************************************)
(* node:path on absolute POSIX paths.                                      *)
(***************************************************************************)
RECURSIVE Normalize(_, _)
\* ph.join / ph.resolve normalisation: ".." removes the segment before it
\* (and stays at the root), "." is dropped.
Normalize(done, rest) ==
  IF rest = <<>> THEN done
  ELSE IF Head(rest) = ".." THEN
         Normalize(IF done = <<>> THEN <<>> ELSE SubSeq(done, 1, Len(done) - 1),
                   Tail(rest))
  ELSE IF Head(rest) = "." THEN Normalize(done, Tail(rest))
  ELSE Normalize(Append(done, Head(rest)), Tail(rest))

\* ph.join(base, rel) for an absolute base
Join(base, rel) == Normalize(<<>>, base \o rel)
\* ph.dirname
Dirname(p) == IF p = <<>> THEN <<>> ELSE SubSeq(p, 1, Len(p) - 1)
\* ph.basename, as the relative path of zero or one segment
Basename(p) == IF p = <<>> THEN <<>> ELSE <<p[Len(p)]>>

IsPrefix(p, q) == Len(p) <= Len(q) /\ SubSeq(q, 1, Len(p)) = p
StrictPrefix(p, q) == IsPrefix(p, q) /\ p # q

(***************************************************************************)
(* The filesystem: a function from the paths of the present entries to     *)
(* [mode, content, target, ino].  ino is the identity of the entry.        *)
(***************************************************************************)
Entry(mode, content, target, ino) ==
  [mode |-> mode, content |-> content, target |-> target, ino |-> ino]

IsDir(e)  == TypeBits(e.mode) = S_IFDIR
IsLink(e) == TypeBits(e.mode) = S_IFLNK
IsReg(e)  == TypeBits(e.mode) = S_IFREG

Children(f, p) == {q \in DOMAIN f : Len(q) = Len(p) + 1 /\ IsPrefix(p, q)}
Subtree(f, p)  == {q \in DOMAIN f : IsPrefix(p, q)}

\* f without the entries at the paths of gone
Without(f, gone) == [q \in (DOMAIN f) \ gone |-> f[q]]
\* f with the entry e at path p
With(f, p, e) == [q \in (DOMAIN f) \cup {p} |-> IF q = p THEN e ELSE f[q]]

Res(err, path, rest) == [err |-> err, path |-> path, rest |-> rest]

RECURSIVE Walk(_, _, _, _, _)
\* Path lookup of the kernel.  done is the real directory reached so far,
\* rest the segments still to look up; follow says whether a symbolic link
\* in the final position is followed.  The result names the real path of
\* the entry, or the error; for ENOENT, path is the first missing entry and
\* rest the segments that were still to look up below it.  ".." is the
\* parent of the directory reached, whatever link led there.
Walk(f, done, rest, follow, fuel) ==
  IF rest = <<>> THEN Res("ok", done, <<>>)
  ELSE IF Head(rest) = "." THEN Walk(f, done, Tail(rest), follow, fuel)
  ELSE IF Head(rest) = ".." THEN Walk(f, Dirname(done), Tail(rest), follow, fuel)
  ELSE LET q == Append(done, Head(rest)) IN
    IF q \notin DOMAIN f THEN Res("ENOENT", q, Tail(rest))
    ELSE IF IsLink(f[q]) /\ (Len(rest) > 1 \/ follow) THEN
      IF fuel = 0 THEN Res("ELOOP", q, <<>>)
      ELSE Walk(f, <<>>, f[q].target \o Tail(rest), follow, fuel - 1)
    ELSE IF Len(rest) > 1 /\ ~IsDir(f[q]) THEN Res("ENOTDIR", q, <<>>)
    ELSE Walk(f, q, Tail(rest), follow, fuel)

Lookup(f, p, follow) == Walk(f, <<>>, p, follow, MaxHops)
\* the lookup found no entry, but the directory to create it in
Creatable(r) == r.err = "ENOENT" /\ r.rest = <<>>

\* fs.accessSync(p, F_OK) / fp.access: "ok" or the error code
OsAccess(f, p) == Lookup(f, p, TRUE).err
\* fs.existsSync: never throws
OsExists(f, p) == OsAccess(f, p) = "ok"
\* fs.lstatSync(p).mode
OsLstat(f, p) ==
  LET r == Lookup(f, p, FALSE) IN
  IF r.err = "ok" THEN [err |-> "ok", mode |-> f[r.path].mode]
  ELSE [err |-> r.err, mode |-> 0]

(***************************************************************************)
(* The calls that change the filesystem.  Each returns the error code (or  *)
(* "ok"), the filesystem after the call and the next unused ino.           *)
(***************************************************************************)
St(err, f, next) == [err |-> err, fs |-> f, next |-> next]

\* fs.renameSync(old, new) / fp.rename: rename(2)
OsRename(f, old, new, next) ==
  LET ro == Lookup(f, old, FALSE)
      rn == Lookup(f, new, FALSE)
      src == ro.path
      dst == rn.path
      there == rn.err = "ok"
      moved == [q \in ((DOMAIN f \ Subtree(f, src)) \ {dst}) \cup
                       {dst \o SubSeq(p, Len(src) + 1, Len(p)) : p \in Subtree(f, src)} |->
                  IF IsPrefix(dst, q)
                  THEN f[src \o SubSeq(q, Len(dst) + 1, Len(q))]
                  ELSE f[q]]
  IN
  IF ro.err # "ok" THEN St(ro.err, f, next)
  ELSE IF ~(there \/ Creatable(rn)) THEN St(rn.err, f, next)
  ELSE IF src = <<>> THEN St("EBUSY", f, next)
  ELSE IF src = dst THEN St("ok", f, next)
  ELSE IF IsDir(f[src]) THEN
    IF StrictPrefix(src, dst) THEN St("EINVAL", f, next)
    ELSE IF there /\ ~IsDir(f[dst]) THEN St("ENOTDIR", f, next)
    ELSE IF there /\ Children(f, dst) # {} THEN St("ENOTEMPTY", f, next)
    ELSE St("ok", moved, next)
  ELSE IF there /\ IsDir(f[dst]) THEN St("EISDIR", f, next)
  ELSE St("ok", moved, next)

\* fs.unlinkSync / fp.unlink: unlink(2)
OsUnlink(f, p, next) ==
  LET r == Lookup(f, p, FALSE) IN
  IF r.err # "ok" THEN St(r.err, f, next)
  ELSE IF IsDir(f[r.path]) THEN St("EISDIR", f, next)
  ELSE St("ok", Without(f, {r.path}), next)

\* fs.rmdirSync(p, { recursive: true }) / fp.rmdir
OsRmdirRecursive(f, p, next) ==
  LET r == Lookup(f, p, FALSE) IN
  IF r.err # "ok" THEN St(r.err, f, next)
  ELSE IF ~IsDir(f[r.path]) THEN St("ENOTDIR", f, next)
  ELSE IF r.path = <<>> THEN St("EBUSY", f, next)
  ELSE St("ok", Without(f, Subtree(f, r.path)), next)

\* fs.copyFileSync(src, dst) / fp.copyFile: both paths are opened, so a
\* symbolic link in the final position is followed.
OsCopyFile(f, src, dst, next) ==
  LET rs == Lookup(f, src, TRUE)
      rd == Lookup(f, dst, TRUE)
  IN
  IF rs.err # "ok" THEN St(rs.err, f, next)
  ELSE IF IsDir(f[rs.path]) THEN St("EISDIR", f, next)
  ELSE IF ~IsReg(f[rs.path]) THEN St("EINVAL", f, next)
  ELSE IF rd.err = "ok" THEN
    IF IsDir(f[rd.path]) THEN St("EISDIR", f, next)
    ELSE IF rd.path = rs.path THEN St("ok", f, next)
    ELSE IF ~IsReg(f[rd.path]) THEN St("EINVAL", f, next)
    ELSE St("ok", With(f, rd.path, [f[rd.path] EXCEPT !.content = f[rs.path].content]), next)
  ELSE IF Creatable(rd) THEN
    St("ok", With(f, rd.path, Entry(f[rs.path].mode, f[rs.path].content, <<>>, next)), next + 1)
  ELSE St(rd.err, f, next)

\* fs.symlinkSync(target, p) / fp.symlink: symlink(2)
OsSymlink(f, target, p, next) ==
  LET r == Lookup(f, p, FALSE) IN
  IF r.err = "ok" THEN St("EEXIST", f, next)
  ELSE IF Creatable(r) THEN
    St("ok", With(f, r.path, Entry(ModeOf("SymbolicLink"), 0, target, next)), next + 1)
  ELSE St(r.err, f, next)

\* fs.readlinkSync / fp.readlink
OsReadlink(f, p) ==
  LET r == Lookup(f, p, FALSE) IN
  IF r.err # "ok" THEN [err |-> r.err, target |-> <<>>]
  ELSE IF ~IsLink(f[r.path]) THEN [err |-> "EINVAL", target |-> <<>>]
  ELSE [err |-> "ok", target |-> f[r.path].target]

\* Every segment the model uses, in readdir order (ascending).
NameOrder == <<"a", "l", "s", "t", "x", "y">>

RECURSIVE Reverse(_)
Reverse(sq) == IF sq = <<>> THEN <<>> ELSE Append(Reverse(Tail(sq)), Head(sq))

\* fs.readdirSync(p) / opendirSync: the names of the children of the
\* directory at the real path p, in one of the orders the OS may report.
ReadDir(f, p, desc) ==
  LET asc == SelectSeq(NameOrder, LAMBDA n : Append(p, n) \in DOMAIN f)
  IN IF desc THEN Reverse(asc) ELSE asc

RECURSIVE CpItem(_, _, _, _)
RECURSIVE CpDir(_, _, _, _, _)

\* cp's onLink: copy the symbolic link at src to dst
CpLink(st, src, dst) ==
  LET f == st.fs
      resolvedSrc == f[src].target
      fresh == Entry(f[src].mode, 0, resolvedSrc, st.next)
      resolvedDest == f[dst].target
      destStat == Lookup(f, dst, TRUE)
  IN
  IF dst \notin DOMAIN f THEN St("ok", With(f, dst, fresh), st.next + 1)
  ELSE IF ~IsLink(f[dst]) THEN St("EEXIST", f, st.next)
  ELSE IF IsPrefix(resolvedSrc, resolvedDest) THEN St("ERR_FS_CP_EINVAL", f, st.next)
  ELSE IF destStat.err # "ok" THEN St(destStat.err, f, st.next)
  ELSE IF IsDir(f[destStat.path]) /\ IsPrefix(resolvedDest, resolvedSrc)
    THEN St("ERR_FS_CP_SYMLINK_TO_SUBDIRECTORY", f, st.next)
  ELSE St("ok", With(f, dst, fresh), st.next + 1)

\* cp's checkPaths + getStats for one entry: src and dst are real paths
CpItem(st, src, dst, desc) ==
  IF st.err # "ok" THEN st
  ELSE LET f == st.fs
           s == f[src]
           there == dst \in DOMAIN f
       IN
    IF there /\ IsDir(s) /\ ~IsDir(f[dst]) THEN St("ERR_FS_CP_DIR_TO_NON_DIR", f, st.next)
    ELSE IF there /\ ~IsDir(s) /\ IsDir(f[dst]) THEN St("ERR_FS_CP_NON_DIR_TO_DIR", f, st.next)
    ELSE IF IsDir(s) THEN
      \* onDir: mkdir dst when it is missing, then copy the children into it
      CpDir(IF there THEN st
            ELSE St("ok", With(f, dst, Entry(s.mode, 0, <<>>, st.next)), st.next + 1),
            src, dst, ReadDir(f, src, desc), desc)
    ELSE IF IsReg(s) THEN
      \* onFile with force: unlink an existing dst, then copyFile
      St("ok", With(f, dst, Entry(s.mode, s.content, <<>>, st.next)), st.next + 1)
    ELSE IF IsLink(s) THEN CpLink(st, src, dst)
    ELSE St("ERR_FS_CP_UNKNOWN", f, st.next)

\* cp's copyDir: the entries of src in readdir order; stops at the first error
CpDir(st, src, dst, names, desc) ==
  IF names = <<>> \/ st.err # "ok" THEN st
  ELSE CpDir(CpItem(st, Append(src, Head(names)), Append(dst, Head(names)), desc),
             src, dst, Tail(names), desc)

RECURSIVE MkdirChain(_, _, _, _)
\* mkdir -p of the missing directories from `at` down through `rest`
MkdirChain(f, at, rest, next) ==
  LET made == With(f, at, Entry(ModeOf("Folder"), 0, <<>>, next)) IN
  IF rest = <<>> THEN St("ok", made, next + 1)
  ELSE MkdirChain(made, Append(at, Head(rest)), Tail(rest), next + 1)

\* fs.cpSync(src, dst, { recursive: true }) / fp.cp
OsCp(f, src, dst, next, desc) ==
  LET rs == Lookup(f, src, FALSE)
      rd == Lookup(f, dst, FALSE)
      realDst == rd.path \o rd.rest
      \* the parent of dst is created when it is missing
      parents == IF rd.err = "ENOENT" /\ rd.rest # <<>>
                 THEN MkdirChain(f, rd.path, SubSeq(rd.rest, 1, Len(rd.rest) - 1), next)
                 ELSE St("ok", f, next)
  IN
  IF rs.err # "ok" THEN St(rs.err, f, next)
  ELSE IF rd.err \notin {"ok", "ENOENT"} THEN St(rd.err, f, next)
  ELSE IF rs.path = realDst THEN St("ERR_FS_CP_EINVAL", f, next)
  ELSE IF rd.err = "ok" /\ IsDir(f[rs.path]) /\ ~IsDir(f[realDst])
    THEN St("ERR_FS_CP_DIR_TO_NON_DIR", f, next)
  ELSE IF rd.err = "ok" /\ ~IsDir(f[rs.path]) /\ IsDir(f[realDst])
    THEN St("ERR_FS_CP_NON_DIR_TO_DIR", f, next)
  ELSE IF IsDir(f[rs.path]) /\ IsPrefix(rs.path, realDst) THEN St("ERR_FS_CP_EINVAL", f, next)
  ELSE CpItem(parents, rs.path, realDst, desc)

(***************************************************************************)
(* Handles (class Road and its subclasses).  A handle is                   *)
(*   cls      the class it was constructed as                              *)
(*   loc      pointsTo / isAt                                              *)
(*   mutable  the mutable flag                                             *)
(*   ino      (history) the entry the handle was constructed for           *)
(*   alone    (history) nothing but this handle's own calls has changed    *)
(*            the filesystem since the handle was constructed              *)
(***************************************************************************)
Handle(cls, loc, mutable, ino) ==
  [cls |-> cls, loc |-> loc, mutable |-> mutable, ino |-> ino, alone |-> TRUE]
NoHandle ==
  [cls |-> "None", loc |-> <<>>, mutable |-> FALSE, ino |-> 0, alone |-> FALSE]

\* `x instanceof K` for a handle of class cls and a constructor K of road_t
InstanceOf(cls, K) == cls = K

\* ph.resolve of an absolute path
Resolve(p) == Normalize(<<>>, p)

\* What a call gives back: the error thrown (or "ok"), the filesystem and
\* the ino counter after it, the location of the handle after it, the handle
\* it returns (NoHandle when it returns none) and its boolean result.
Out(err, f, next, loc, ret, val) ==
  [err |-> err, fs |-> f, next |-> next, loc |-> loc, ret |-> ret, val |-> val]
Thrown(err, f, next, hd) == Out(err, f, next, hd.loc, NoHandle, FALSE)

\* new cls(_lookFor): Road.constructor (with the field initialisers of the
\* subclass: UnusuableRoad overrides mutable with false)
Construct(f, cls, lookFor, next) ==
  LET acc == OsAccess(f, lookFor)
      isAt == Resolve(lookFor)
      st == OsLstat(f, isAt)
      here == Lookup(f, isAt, FALSE).path
  IN
  IF acc # "ok" THEN Out(acc, f, next, <<>>, NoHandle, FALSE)
  ELSE IF st.err # "ok" THEN Out(st.err, f, next, <<>>, NoHandle, FALSE)
  ELSE IF roadType(st.mode) = UnknownMode THEN Out(UnknownMode, f, next, <<>>, NoHandle, FALSE)
  ELSE IF ~InstanceOf(cls, roadType(st.mode)) THEN Out("TypeMismatch", f, next, <<>>, NoHandle, FALSE)
  ELSE Out("ok", f, next, isAt,
           Handle(cls, isAt, cls \notin UnusableKinds, f[here].ino), FALSE)

\* Road.factory / Road.factory_sync
factory(f, lookFor, next) ==
  LET acc == OsAccess(f, lookFor)
      st == OsLstat(f, lookFor)
  IN
  IF acc # "ok" THEN Out(acc, f, next, <<>>, NoHandle, FALSE)
  ELSE IF st.err # "ok" THEN Out(st.err, f, next, <<>>, NoHandle, FALSE)
  ELSE IF roadType(st.mode) = UnknownMode THEN Out(UnknownMode, f, next, <<>>, NoHandle, FALSE)
  ELSE Construct(f, roadType(st.mode), lookFor, next)

\* Road.assert_mutable: the error it throws, or "ok"
assert_mutable(hd) == IF ~hd.mutable THEN "NotMutable" ELSE "ok"

\* Road.exists_sync
exists_sync(f, hd) ==
  LET st == OsLstat(f, hd.loc) IN
  IF ~OsExists(f, hd.loc) THEN Out("ok", f, 0, hd.loc, NoHandle, FALSE)
  ELSE IF st.err # "ok" THEN Out(st.err, f, 0, hd.loc, NoHandle, FALSE)
  ELSE IF roadType(st.mode) = UnknownMode THEN Out(UnknownMode, f, 0, hd.loc, NoHandle, FALSE)
  ELSE Out("ok", f, 0, hd.loc, NoHandle, InstanceOf(hd.cls, roadType(st.mode)))

\* Road.exists: every error inside the try block gives false
exists(f, hd) ==
  LET st == OsLstat(f, hd.loc) IN
  IF OsAccess(f, hd.loc) # "ok" THEN Out("ok", f, 0, hd.loc, NoHandle, FALSE)
  ELSE IF st.err # "ok" \/ roadType(st.mode) = UnknownMode
    THEN Out("ok", f, 0, hd.loc, NoHandle, FALSE)
  ELSE Out("ok", f, 0, hd.loc, NoHandle, InstanceOf(hd.cls, roadType(st.mode)))

\* Road.stats_sync / Road.stats
stats(f, hd) == Out(OsLstat(f, hd.loc).err, f, 0, hd.loc, NoHandle, FALSE)

\* Road.name
name(hd) == Basename(hd.loc)
\* Road.join
join(hd, rel) == Join(hd.loc, rel)
\* Road.parent: new Folder(ph.dirname(this.isAt))
parent(f, hd, next) == Construct(f, "Folder", Dirname(hd.loc), next)

(***************************************************************************)
(* The positional methods.  The blocking and the awaitable form of a       *)
(* method make the same calls in the same order; run without another task  *)
(* in between they are one step.                                           *)
(***************************************************************************)
\* File.delete_sync / File.delete
File_delete(f, hd, next) ==
  LET r == OsUnlink(f, hd.loc, next) IN
  IF assert_mutable(hd) # "ok" THEN Thrown(assert_mutable(hd), f, next, hd)
  ELSE Out(r.err, r.fs, r.next, hd.loc, NoHandle, FALSE)

\* a File.move that sets pointsTo before it knows what rename gave
File_move_LocationFirst(f, hd, into, next) ==
  LET newPath == join(into, name(hd))
      r == OsRename(f, hd.loc, newPath, next)
  IN
  IF assert_mutable(hd) # "ok" THEN Thrown(assert_mutable(hd), f, next, hd)
  ELSE Out(r.err, r.fs, r.next, newPath, NoHandle, FALSE)

\* File.move_sync / File.move
File_move(f, hd, into, next) ==
  LET newPath == join(into, name(hd))
      r == OsRename(f, hd.loc, newPath, next)
  IN
  IF assert_mutable(hd) # "ok" THEN Thrown(assert_mutable(hd), f, next, hd)
  ELSE IF r.err # "ok" THEN Thrown(r.err, f, next, hd)
  ELSE Out("ok", r.fs, r.next, newPath, NoHandle, FALSE)

\* File.copy_sync / File.copy
File_copy(f, hd, into, next) ==
  LET newPath == join(into, name(hd))
      r == OsCopyFile(f, hd.loc, newPath, next)
      made == Construct(r.fs, "File", newPath, r.next)
  IN
  IF r.err # "ok" THEN Thrown(r.err, r.fs, r.next, hd)
  ELSE Out(made.err, r.fs, r.next, hd.loc, made.ret, FALSE)

\* File.rename_sync / File.rename
File_rename(f, hd, to, next) ==
  LET par == parent(f, hd, next)
      newPath == join(par.ret, to)
      r == OsRename(f, hd.loc, newPath, next)
  IN
  IF assert_mutable(hd) # "ok" THEN Thrown(assert_mutable(hd), f, next, hd)
  ELSE IF par.err # "ok" THEN Thrown(par.err, f, next, hd)
  ELSE IF r.err # "ok" THEN Thrown(r.err, f, next, hd)
  ELSE Out("ok", r.fs, r.next, newPath, NoHandle, FALSE)

\* Folder.delete_sync / Folder.delete
Folder_delete(f, hd, next) ==
  LET r == OsRmdirRecursive(f, hd.loc, next) IN
  IF assert_mutable(hd) # "ok" THEN Thrown(assert_mutable(hd), f, next, hd)
  ELSE Out(r.err, r.fs, r.next, hd.loc, NoHandle, FALSE)

\* a Folder.move that leaves pointsTo as it was
Folder_move_KeepsLocation(f, hd, into, next) ==
  LET newPath == join(into, name(hd))
      r == OsRename(f, hd.loc, newPath, next)
  IN
  IF assert_mutable(hd) # "ok" THEN Thrown(assert_mutable(hd), f, next, hd)
  ELSE IF r.err # "ok" THEN Thrown(r.err, f, next, hd)
  ELSE Out("ok", r.fs, r.next, hd.loc, NoHandle, FALSE)

\* Folder.move_sync / Folder.move
Folder_move(f, hd, into, next) ==
  LET newPath == join(into, name(hd))
      r == OsRename(f, hd.loc, newPath, next)
  IN
  IF assert_mutable(hd) # "ok" THEN Thrown(assert_mutable(hd), f, next, hd)
  ELSE IF r.err # "ok" THEN Thrown(r.err, f, next, hd)
  ELSE Out("ok", r.fs, r.next, newPath, NoHandle, FALSE)

\* a Folder.copy that refuses a destination that is already there
Folder_copy_NewOnly(f, hd, into, next, desc) ==
  LET newPath == join(into, name(hd))
      r == OsCp(f, hd.loc, newPath, next, desc)
      made == Construct(r.fs, "Folder", newPath, r.next)
  IN
  IF OsLstat(f, newPath).err = "ok" THEN Thrown("EEXIST", f, next, hd)
  ELSE IF r.err # "ok" THEN Thrown(r.err, r.fs, r.next, hd)
  ELSE Out(made.err, r.fs, r.next, hd.loc, made.ret, FALSE)

\* Folder.copy_sync / Folder.copy; desc is the order readdir reports
Folder_copy(f, hd, into, next, desc) ==
  LET newPath == join(into, name(hd))
      r == OsCp(f, hd.loc, newPath, next, desc)
      made == Construct(r.fs, "Folder", newPath, r.next)
  IN
  IF r.err # "ok" THEN Thrown(r.err, r.fs, r.next, hd)
  ELSE Out(made.err, r.fs, r.next, hd.loc, made.ret, FALSE)

\* Folder.rename_sync / Folder.rename
Folder_rename(f, hd, to, next) ==
  LET par == parent(f, hd, next)
      newPath == join(par.ret, to)
      r == OsRename(f, hd.loc, newPath, next)
  IN
  IF assert_mutable(hd) # "ok" THEN Thrown(assert_mutable(hd), f, next, hd)
  ELSE IF par.err # "ok" THEN Thrown(par.err, f, next, hd)
  ELSE IF r.err # "ok" THEN Thrown(r.err, f, next, hd)
  ELSE Out("ok", r.fs, r.next, newPath, NoHandle, FALSE)

\* SymbolicLink.target_sync / SymbolicLink.target
SymbolicLink_target(f, hd, next) ==
  LET rl == OsReadlink(f, hd.loc) IN
  IF rl.err # "ok" THEN Thrown(rl.err, f, next, hd)
  ELSE factory(f, Resolve(rl.target), next)

\* SymbolicLink.delete_sync / SymbolicLink.delete
SymbolicLink_delete(f, hd, next) ==
  LET r == OsUnlink(f, hd.loc, next) IN
  IF assert_mutable(hd) # "ok" THEN Thrown(assert_mutable(hd), f, next, hd)
  ELSE Out(r.err, r.fs, r.next, hd.loc, NoHandle, FALSE)

\* SymbolicLink.move_sync / SymbolicLink.move
SymbolicLink_move(f, hd, into, next) ==
  LET newPath == join(into, name(hd))
      r == OsRename(f, hd.loc, newPath, next)
  IN
  IF assert_mutable(hd) # "ok" THEN Thrown(assert_mutable(hd), f, next, hd)
  ELSE IF r.err # "ok" THEN Thrown(r.err, f, next, hd)
  ELSE Out("ok", r.fs, r.next, newPath, NoHandle, FALSE)

\* SymbolicLink.copy_sync / SymbolicLink.copy
SymbolicLink_copy(f, hd, into, next) ==
  LET newPath == join(into, name(hd))
      target == SymbolicLink_target(f, hd, next)
      r == OsSymlink(f, target.ret.loc, newPath, next)
      made == Construct(r.fs, "SymbolicLink", newPath, r.next)
  IN
  IF target.err # "ok" THEN Thrown(target.err, f, next, hd)
  ELSE IF r.err # "ok" THEN Thrown(r.err, f, next, hd)
  ELSE Out(made.err, r.fs, r.next, hd.loc, made.ret, FALSE)

\* SymbolicLink.rename_sync / SymbolicLink.rename
SymbolicLink_rename(f, hd, to, next) ==
  LET par == parent(f, hd, next)
      newPath == join(par.ret, to)
      r == OsRename(f, hd.loc, newPath, next)
  IN
  IF assert_mutable(hd) # "ok" THEN Thrown(assert_mutable(hd), f, next, hd)
  ELSE IF par.err # "ok" THEN Thrown(par.err, f, next, hd)
  ELSE IF r.err # "ok" THEN Thrown(r.err, f, next, hd)
  ELSE Out("ok", r.fs, r.next, newPath, NoHandle, FALSE)

\* an UnusuableRoad that left the rejection to its mutable flag
UnusuableRoad_op_ByMutableFlag(f, hd, next) == Thrown(assert_mutable(hd), f, next, hd)

\* UnusuableRoad: delete, move, copy and rename all throw "Cannot <op> type"
UnusuableRoad_op(f, hd, next) == Thrown("NotSupported", f, next, hd)

\* The method the class of the handle provides (abstract in Road)
delete(f, hd, next) ==
  CASE hd.cls = "File" -> File_delete(f, hd, next)
    [] hd.cls = "Folder" -> Folder_delete(f, hd, next)
    [] hd.cls = "SymbolicLink" -> SymbolicLink_delete(f, hd, next)
    [] OTHER -> UnusuableRoad_op(f, hd, next)
move(f, hd, into, next) ==
  CASE hd.cls = "File" -> File_move(f, hd, into, next)
    [] hd.cls = "Folder" -> Folder_move(f, hd, into, next)
    [] hd.cls = "SymbolicLink" -> SymbolicLink_move(f, hd, into, next)
    [] OTHER -> UnusuableRoad_op(f, hd, next)
copy(f, hd, into, next, desc) ==
  CASE hd.cls = "File" -> File_copy(f, hd, into, next)
    [] hd.cls = "Folder" -> Folder_copy(f, hd, into, next, desc)
    [] hd.cls = "SymbolicLink" -> SymbolicLink_copy(f, hd, into, next)
    [] OTHER -> UnusuableRoad_op(f, hd, next)
rename(f, hd, to, next) ==
  CASE hd.cls = "File" -> File_rename(f, hd, to, next)
    [] hd.cls = "Folder" -> Folder_rename(f, hd, to, next)
    [] hd.cls = "SymbolicLink" -> SymbolicLink_rename(f, hd, to, next)
    [] OTHER -> UnusuableRoad_op(f, hd, next)

(***************************************************************************)
(* State.                                                                  *)
(***************************************************************************)
VARIABLES
  fs,        \* the filesystem
  handles,   \* the handles the caller holds, by slot
  last,      \* the last call: what was called and what it gave back
  steps,     \* calls and external modifications so far
  nextIno,   \* the next unused ino
  mode,      \* classifier: the raw mode given to roadType
  result,    \* classifier: what roadType gave for it ("none" before the call)
  it,        \* a chunked iteration over a file: it_bytes_sync / it_bytes
  w,         \* a watch loop: until_accessible / on_change
  pending,   \* a call that has made the first of its two steps
  loop,      \* a loop of attempts: retry / wait_for_existence
  live,      \* a LiveFile and its monitoring loop
  registry   \* openSessions of the HTTP/2 handlers, and the handlers

vars == <<fs, handles, last, steps, nextIno, mode, result, it, w, pending, loop, live, registry>>

\* no iteration and no watch loop has been started
NoIter == [pc |-> "none"]
NoWatch == [pc |-> "none"]
NoPending == [pc |-> "none", h |-> 0, target |-> 0]
NoLoop == [pc |-> "none"]
NoLive == [pc |-> "none"]
NoRegistry == [pc |-> "none"]

Slots == {1, 2}
Forms == {"sync", "async"}
MutatingOps == {"delete", "move", "copy", "rename"}

\* Inputs of the calls
ProbePaths == {<<"a", "x">>, <<"l">>, <<"s">>, <<"n">>, <<"t", "..", "a">>}
\* The classes a caller constructs: the three usable ones and the class of
\* every kind of node the filesystem holds
ProbeClasses(f) ==
  {"File", "Folder", "SymbolicLink"} \cup {roadType(f[p].mode) : p \in DOMAIN f}
RenameArgs == {<<"y">>, <<"..", "y">>, <<"t", "y">>}
EnvPaths   == {<<"a", "x">>}
EnvKinds   == {"None", "File", "Folder"}

Call(n, op, form, h, into, to, path, cls, out) ==
  [n |-> n, op |-> op, form |-> form, h |-> h, into |-> into, to |-> to,
   path |-> path, cls |-> cls, err |-> out.err, ret |-> out.ret, val |-> out.val]
NoCall ==
  [n |-> 0, op |-> "none", form |-> "sync", h |-> 0, into |-> 0, to |-> <<>>,
   path |-> <<>>, cls |-> "None", err |-> "ok", ret |-> NoHandle, val |-> FALSE]

DepthOk(f) == \A p \in DOMAIN f : Len(p) <= MaxDepth

\* The filesystem the behaviours start from: /a/x and /t/a/y are regular
\* files, /l is a symbolic link to /a/x, /s is a node of kind special.
InitFs(special) ==
  (<<>> :> Entry(ModeOf("Folder"), 0, <<>>, 1)) @@
  (<<"a">> :> Entry(ModeOf("Folder"), 0, <<>>, 2)) @@
  (<<"a", "x">> :> Entry(ModeOf("File"), 1, <<>>, 3)) @@
  (<<"t">> :> Entry(ModeOf("Folder"), 0, <<>>, 4)) @@
  (<<"t", "a">> :> Entry(ModeOf("Folder"), 0, <<>>, 5)) @@
  (<<"t", "a", "y">> :> Entry(ModeOf("File"), 2, <<>>, 6)) @@
  (<<"l">> :> Entry(ModeOf("SymbolicLink"), 0, <<"a", "x">>, 7)) @@
  (<<"s">> :> Entry(ModeOf(special), 0, <<>>, 8))
FirstIno == Cardinality(DOMAIN InitFs("Fifo")) + 1

\* The handles a caller may hold at the start: each was given by the
\* factory for an entry of the filesystem, and the caller may have cleared
\* the mutable flag of the first.
HeldFirst(f) ==
  {NoHandle} \cup
  {[factory(f, p, FirstIno).ret EXCEPT !.mutable = @ /\ m] :
     p \in {q \in DOMAIN f : factory(f, q, FirstIno).err = "ok"},
     m \in BOOLEAN}
HeldSecond(f) == {NoHandle, factory(f, <<"t">>, FirstIno).ret}

Init ==
  /\ \E special \in UnusableKinds :
       /\ fs = InitFs(special)
       /\ \E h1 \in HeldFirst(fs), h2 \in HeldSecond(fs) :
            handles = (1 :> h1) @@ (2 :> h2)
  /\ last = NoCall
  /\ steps = 0
  /\ nextIno = FirstIno
  /\ mode = 0
  /\ result = "none"
  /\ it = NoIter
  /\ w = NoWatch
  /\ pending = NoPending
  /\ loop = NoLoop
  /\ live = NoLive
  /\ registry = NoRegistry

\* The handles after a call of slot h (0: no handle's call) that turned the
\* filesystem f into g: the other handles are no longer alone with it.
Touched(hs, h, f, g) ==
  [i \in Slots |-> IF i # h /\ f # g /\ hs[i] # NoHandle
                   THEN [hs[i] EXCEPT !.alone = FALSE] ELSE hs[i]]
\* The caller keeps a returned handle in a free slot, when there is one
Kept(hs, ret) ==
  IF ret = NoHandle \/ \A i \in Slots : hs[i] # NoHandle THEN hs
  ELSE LET free == CHOOSE i \in Slots : hs[i] = NoHandle /\ \A j \in Slots : hs[j] = NoHandle => i <= j
       IN [hs EXCEPT ![free] = ret]

Frame == UNCHANGED <<mode, result, it, w, pending, loop, live, registry>>

\* new cls(p)
DoConstruct(cls, p) ==
  /\ steps < MaxSteps
  /\ cls \in ProbeClasses(fs)
  /\ LET out == Construct(fs, cls, p, nextIno) IN
       /\ handles' = Kept(handles, out.ret)
       /\ last' = Call(steps + 1, "construct", "sync", 0, 0, <<>>, p, cls, out)
  /\ steps' = steps + 1
  /\ UNCHANGED <<fs, nextIno>>
  /\ Frame

\* Road.factory_sync(p) / await Road.factory(p): the two forms make the same
\* calls in the same order
DoFactory(p) ==
  /\ steps < MaxSteps
  /\ LET out == factory(fs, p, nextIno) IN
       /\ handles' = Kept(handles, out.ret)
       /\ last' = Call(steps + 1, "factory", "both", 0, 0, <<>>, p, "None", out)
  /\ steps' = steps + 1
  /\ UNCHANGED <<fs, nextIno>>
  /\ Frame

\* h.exists_sync() / await h.exists()
DoExists(h, form) ==
  /\ steps < MaxSteps
  /\ handles[h] # NoHandle
  /\ LET out == IF form = "sync" THEN exists_sync(fs, handles[h]) ELSE exists(fs, handles[h]) IN
       last' = Call(steps + 1, "exists", form, h, 0, <<>>, <<>>, "None", out)
  /\ steps' = steps + 1
  /\ UNCHANGED <<fs, handles, nextIno>>
  /\ Frame

\* h.stats_sync() / await h.stats(): either form is one lstat
DoStats(h) ==
  /\ steps < MaxSteps
  /\ handles[h] # NoHandle
  /\ last' = Call(steps + 1, "stats", "both", h, 0, <<>>, <<>>, "None", stats(fs, handles[h]))
  /\ steps' = steps + 1
  /\ UNCHANGED <<fs, handles, nextIno>>
  /\ Frame

\* h.mutable = false (an UnusuableRoad is frozen: the assignment throws)
SetImmutable(h) ==
  /\ steps < MaxSteps
  /\ handles[h] # NoHandle
  /\ handles[h].mutable
  /\ handles' = [handles EXCEPT ![h].mutable = FALSE]
  /\ last' = Call(steps + 1, "set_mutable", "sync", h, 0, <<>>, <<>>, "None",
                  Thrown("ok", fs, nextIno, handles[h]))
  /\ steps' = steps + 1
  /\ UNCHANGED <<fs, nextIno>>
  /\ Frame

\* The state after the call out of slot h
Applied(h, out) ==
  /\ DepthOk(out.fs)
  /\ fs' = out.fs
  /\ nextIno' = out.next
  /\ handles' = Kept(Touched([handles EXCEPT ![h].loc = out.loc], h, fs, out.fs), out.ret)
  /\ steps' = steps + 1
  /\ Frame

\* The blocking and the awaitable form of delete, move, copy and rename make
\* the same checks and the same calls in the same order.

\* h.delete_sync() / await h.delete()
DoDelete(h) ==
  /\ steps < MaxSteps
  /\ handles[h] # NoHandle
  /\ LET out == delete(fs, handles[h], nextIno) IN
       /\ Applied(h, out)
       /\ last' = Call(steps + 1, "delete", "both", h, 0, <<>>, <<>>, "None", out)

\* h.move_sync(i) / await h.move(i)
DoMove(h, i) ==
  /\ steps < MaxSteps
  /\ handles[h] # NoHandle
  /\ handles[i].cls = "Folder"
  /\ LET out == move(fs, handles[h], handles[i], nextIno) IN
       /\ Applied(h, out)
       /\ last' = Call(steps + 1, "move", "both", h, i, <<>>, <<>>, "None", out)

\* h.copy_sync(i) / await h.copy(i)
DoCopy(h, i) ==
  /\ steps < MaxSteps
  /\ handles[h] # NoHandle
  /\ handles[i].cls = "Folder"
  /\ \E desc \in BOOLEAN :
       LET out == copy(fs, handles[h], handles[i], nextIno, desc) IN
         /\ Applied(h, out)
         /\ last' = Call(steps + 1, "copy", "both", h, i, <<>>, <<>>, "None", out)

\* h.rename_sync(to) / await h.rename(to)
DoRename(h, to) ==
  /\ steps < MaxSteps
  /\ handles[h] # NoHandle
  /\ LET out == rename(fs, handles[h], to, nextIno) IN
       /\ Applied(h, out)
       /\ last' = Call(steps + 1, "rename", "both", h, 0, to, <<>>, "None", out)

\* Another process removes what is at p and, for a kind other than "None",
\* puts a fresh empty entry of that kind there.
EnvReplace(p, kind) ==
  /\ steps < MaxSteps
  /\ Dirname(p) \in DOMAIN fs /\ IsDir(fs[Dirname(p)])
  /\ p \in DOMAIN fs \/ kind # "None"
  /\ LET gone == Without(fs, Subtree(fs, p))
         g == IF kind = "None" THEN gone
              ELSE With(gone, p, Entry(ModeOf(kind), 0, <<>>, nextIno))
     IN /\ fs' = g
        /\ handles' = Touched(handles, 0, fs, g)
  /\ nextIno' = nextIno + 1
  /\ last' = [NoCall EXCEPT !.n = steps + 1, !.op = "env", !.path = p, !.cls = kind]
  /\ steps' = steps + 1
  /\ Frame

\* A caller that works on the handles it holds
Next ==
  \/ \E h \in Slots, form \in Forms : DoExists(h, form)
  \/ \E h \in Slots : DoStats(h)
  \/ \E h \in Slots : SetImmutable(h)
  \/ \E h \in Slots : DoDelete(h)
  \/ \E h \in Slots, i \in Slots : DoMove(h, i)
  \/ \E h \in Slots, i \in Slots : DoCopy(h, i)
  \/ \E h \in Slots, to \in RenameArgs : DoRename(h, to)
  \/ \E p \in EnvPaths, kind \in EnvKinds : EnvReplace(p, kind)

Spec == Init /\ [][Next]_vars

\* A caller that makes handles for paths
NextMake ==
  \/ \E cls \in Kinds, p \in ProbePaths : DoConstruct(cls, p)
  \/ \E p \in ProbePaths : DoFactory(p)
  \/ \E p \in EnvPaths, kind \in EnvKinds : EnvReplace(p, kind)

SpecMake == Init /\ [][NextMake]_vars

(***************************************************************************)
(* The classifier on raw modes, on its own: the mode is any type-bit       *)
(* pattern with a sample of permission bits and of bits above the type.    *)
(***************************************************************************)
PermSamples == {0, 420, 493, 4095}
ModeInputs == {hi * 65536 + t * 4096 + perm : hi \in 0..1, t \in 0..15, perm \in PermSamples}

InitClassify ==
  /\ fs = InitFs("Fifo")
  /\ handles = (1 :> NoHandle) @@ (2 :> NoHandle)
  /\ last = NoCall
  /\ steps = 0
  /\ nextIno = FirstIno
  /\ mode \in ModeInputs
  /\ result = "none"
  /\ it = NoIter
  /\ w = NoWatch
  /\ pending = NoPending
  /\ loop = NoLoop
  /\ live = NoLive
  /\ registry = NoRegistry

\* roadType(mode)
Classify ==
  /\ result = "none"
  /\ result' = roadType(mode)
  /\ UNCHANGED <<fs, handles, last, steps, nextIno, mode, it, w, pending, loop, live, registry>>

NextClassify == Classify

SpecClassify == InitClassify /\ [][NextClassify]_vars

(***************************************************************************)
(* Properties.                                                             *)
(***************************************************************************)
UsableKinds == Kinds \ UnusableKinds
OsErrors == {"ENOENT", "ENOTDIR", "EISDIR", "ENOTEMPTY", "EINVAL", "EBUSY",
             "EEXIST", "ELOOP", "ERR_FS_CP_EINVAL", "ERR_FS_CP_DIR_TO_NON_DIR",
             "ERR_FS_CP_NON_DIR_TO_DIR", "ERR_FS_CP_SYMLINK_TO_SUBDIRECTORY",
             "ERR_FS_CP_UNKNOWN"}

\* the entry lstat finds at p: its ino (0: none) and its kind ("None": none)
InoAt(f, p) ==
  LET r == Lookup(f, p, FALSE) IN IF r.err = "ok" THEN f[r.path].ino ELSE 0
KindAt(f, p) ==
  LET r == Lookup(f, p, FALSE) IN IF r.err = "ok" THEN roadType(f[r.path].mode) ELSE "None"
RealAt(f, p) == Lookup(f, p, FALSE).path

\* this step is a call of op, one of ops, on a handle
CallOf(ops) == steps' = steps + 1 /\ last'.op \in ops
\* the handle the call of this step was made on, before and after it
Callee == handles[last'.h]
CalleeAfter == handles'[last'.h]
\* the handle given as the directory of this step's move or copy
IntoDir == handles[last'.into]

\* C1: delete, move, copy and rename (either form) on a File, Folder or
\* SymbolicLink handle whose mutable flag is false fail with the not-mutable
\* error, and leave the filesystem and the handle's location as they were.
C1_MutabilityGate ==
  [][(CallOf(MutatingOps) /\ Callee.cls \in UsableKinds /\ ~Callee.mutable)
       => (/\ last'.err = "NotMutable"
           /\ fs' = fs
           /\ CalleeAfter.loc = Callee.loc)]_vars

\* C2: delete, move, copy and rename (either form) on a handle of an unusable
\* kind fail with the not-supported error, which is neither the not-mutable
\* error nor an error of the operating system, and change nothing; exists
\* and stats on such a handle succeed while its node is as it was found.
C2_UnusableRejects ==
  [][/\ (CallOf(MutatingOps) /\ Callee.cls \in UnusableKinds)
          => (/\ last'.err = "NotSupported"
              /\ last'.err \notin OsErrors \cup {"NotMutable"}
              /\ fs' = fs
              /\ handles' = handles)
     /\ (CallOf({"exists", "stats"}) /\ Callee.cls \in UnusableKinds /\ Callee.alone)
          => (/\ last'.err = "ok"
              /\ last'.op = "exists" => last'.val = TRUE)]_vars

\* a copy on a handle of a FIFO was rejected as not supported
C2_Witness ==
  /\ last.op = "copy"
  /\ handles[last.h].cls = "Fifo"
  /\ last.err = "NotSupported"

\* C3: exists (either form) returns true exactly when an entry is present at
\* the handle's location and the classifier reports the handle's kind for
\* it, and returns false without throwing otherwise.
C3_ExistsIffPresentOfKind ==
  last.op = "exists"
    => (/\ last.err = "ok"
        /\ last.val = (KindAt(fs, handles[last.h].loc) = handles[last.h].cls))

AloneTracks ==
  \A h \in Slots :
    (handles[h].alone /\ \E p \in DOMAIN fs : fs[p].ino = handles[h].ino)
      => InoAt(fs, handles[h].loc) = handles[h].ino

\* C5: absent external modification a handle's location names the entry the
\* handle represents: a move or rename that fails leaves the location as it
\* was, a successful one makes it name the entry the old location named,
\* and a copy, successful or not, never changes the location of its source.
C5_LocationTracksEntry ==
  [][/\ (CallOf({"move", "rename"}) /\ last'.err # "ok") => CalleeAfter.loc = Callee.loc
     /\ (CallOf({"move", "rename"}) /\ last'.err = "ok")
          => InoAt(fs', CalleeAfter.loc) = InoAt(fs, Callee.loc)
     /\ CallOf({"copy"}) => CalleeAfter.loc = Callee.loc
     /\ AloneTracks']_vars

\* the operating system refused a rename of a move, and the handle is where
\* it was
C5_Witness ==
  /\ last.op = "move"
  /\ last.err \in OsErrors
  /\ handles[last.h].alone
  /\ InoAt(fs, handles[last.h].loc) = handles[last.h].ino

\* C6: after a successful rename(newName) the entry is in the parent
\* directory it was in before the call and the handle's name() is newName.
C6_RenameKeepsDirectory ==
  [][(CallOf({"rename"}) /\ Callee.cls \in UsableKinds /\ last'.err = "ok")
       => (/\ Dirname(RealAt(fs', CalleeAfter.loc)) = Dirname(RealAt(fs, Callee.loc))
           /\ InoAt(fs', CalleeAfter.loc) = InoAt(fs, Callee.loc)
           /\ name(CalleeAfter) = last'.to)]_vars

\* the kind POSIX gives to each value of the four file-type bits
KindOfTypeBits(t) ==
  CASE t = 8 -> "File"
    [] t = 4 -> "Folder"
    [] t = 6 -> "BlockDevice"
    [] t = 2 -> "CharacterDevice"
    [] t = 10 -> "SymbolicLink"
    [] t = 1 -> "Fifo"
    [] t = 12 -> "Socket"
    [] OTHER -> UnknownMode

\* C7: the classifier applied to a raw mode gives the kind that the mode's
\* file-type bits alone determine, for each of the seven known patterns, and
\* the unknown-kind error for every other mode (mode 0 among them).
C7_ClassifierByTypeBits ==
  result # "none"
    => (/\ \A t \in 0..15, perm \in 0..4095, hi \in 0..1 :
             mode = hi * 65536 + t * 4096 + perm => result = KindOfTypeBits(t)
        /\ mode = 0 => result = UnknownMode)

\* a socket was classified whatever its permission bits
C7_Witness ==
  /\ result = "Socket"
  /\ mode % 4096 = 4095

\* C8: for every existing node the factory (either form) returns a handle
\* of the kind the classifier reports for the path; for a symbolic link
\* that is a SymbolicLink handle, whatever its target is and whether or not
\* the target exists.
C8_FactoryGivesClassifiedKind ==
  [][(CallOf({"factory"}) /\ KindAt(fs, last'.path) # "None")
       => (/\ last'.err = "ok"
           /\ last'.ret.cls = KindAt(fs, last'.path))]_vars

\* C9: constructing a handle fails with the not-found error when nothing
\* exists at the path and with the kind-mismatch error when the node there
\* is of another kind than the class constructed; the filesystem is as it
\* was either way, and on success the handle's location is the resolved
\* absolute form of the path.
C9_ConstructChecks ==
  [][CallOf({"construct"})
       => (/\ fs' = fs
           /\ KindAt(fs, last'.path) = "None" => last'.err = "ENOENT"
           /\ KindAt(fs, last'.path) \notin {"None", last'.cls} => last'.err = "TypeMismatch"
           /\ KindAt(fs, last'.path) = last'.cls
                => (last'.err = "ok" /\ last'.ret.loc = Resolve(last'.path)))]_vars

\* the names of the entries of the directory at p
NamesIn(f, p) == {Basename(q)[1] : q \in Children(f, RealAt(f, p))}
\* where Folder.copy puts the copy of the handle's directory
CopyDest == Join(IntoDir.loc, Basename(Callee.loc))
\* the part of the filesystem at and below p
Below(f, p) == [q \in Subtree(f, p) |-> f[q]]

\* C10: copying a directory A that has entries into a directory in which
\* the destination for A already exists, apart from A, with entries of other
\* names, succeeds; afterwards the destination has the entries of A and the
\* entries it had, and A is as it was.
C10_FolderCopyMerges ==
  [][(/\ CallOf({"copy"})
      /\ Callee.cls = "Folder" /\ KindAt(fs, Callee.loc) = "Folder"
      /\ KindAt(fs, CopyDest) = "Folder"
      /\ ~IsPrefix(RealAt(fs, Callee.loc), RealAt(fs, CopyDest))
      /\ ~IsPrefix(RealAt(fs, CopyDest), RealAt(fs, Callee.loc))
      /\ NamesIn(fs, Callee.loc) # {} /\ NamesIn(fs, CopyDest) # {}
      /\ NamesIn(fs, Callee.loc) \cap NamesIn(fs, CopyDest) = {})
       => (/\ last'.err = "ok"
           /\ NamesIn(fs', CopyDest) = NamesIn(fs, Callee.loc) \cup NamesIn(fs, CopyDest)
           /\ \A x \in NamesIn(fs, Callee.loc) :
                /\ KindAt(fs', Join(CopyDest, <<x>>)) = KindAt(fs, Join(Callee.loc, <<x>>))
                /\ fs'[RealAt(fs', Join(CopyDest, <<x>>))].content
                     = fs[RealAt(fs, Join(Callee.loc, <<x>>))].content
           /\ \A q \in Subtree(fs, RealAt(fs, CopyDest)) : q \in DOMAIN fs' /\ fs'[q] = fs[q]
           /\ Below(fs', RealAt(fs, Callee.loc)) = Below(fs, RealAt(fs, Callee.loc))
           /\ last'.ret.cls = "Folder" /\ last'.ret.loc = CopyDest)]_vars

\* the directory /a, holding x, was copied into /t, where /t/a held y
C10_Witness ==
  /\ last.op = "copy"
  /\ last.err = "ok"
  /\ handles[last.h].loc = <<"a">>
  /\ handles[last.into].loc = <<"t">>
  /\ {<<"t", "a", "x">>, <<"t", "a", "y">>, <<"a", "x">>} \subseteq DOMAIN fs
  /\ <<"a", "y">> \notin DOMAIN fs

(***************************************************************************)
(* Folder.find.  A name is given as its segments: a name of more than one  *)
(* segment is a name that holds a path separator.                          *)
(***************************************************************************)
\* Folder.find_sync / Folder.find: every error inside the try block gives null
Folder_find(f, hd, nm, expected, next) ==
  LET p == join(hd, nm)
      acc == OsAccess(f, p)
      found == factory(f, p, next)
  IN
  IF acc # "ok" THEN Out("ok", f, next, hd.loc, NoHandle, FALSE)
  ELSE IF found.err # "ok" THEN Out("ok", f, next, hd.loc, NoHandle, FALSE)
  ELSE IF expected = "None" THEN Out("ok", f, next, hd.loc, found.ret, FALSE)
  ELSE IF InstanceOf(found.ret.cls, expected) THEN Out("ok", f, next, hd.loc, found.ret, FALSE)
  ELSE Out("ok", f, next, hd.loc, NoHandle, FALSE)

FindNames == {<<"a">>, <<"x">>, <<"l">>, <<"n">>, <<"a", "y">>, <<"a", "x">>}
FindTypes == {"None", "File", "Folder"}

\* h.find_sync(nm, expected) / await h.find(nm, expected)
DoFind(h, nm, expected) ==
  /\ steps < MaxSteps
  /\ handles[h].cls = "Folder"
  /\ LET out == Folder_find(fs, handles[h], nm, expected, nextIno) IN
       last' = Call(steps + 1, "find", "both", h, 0, nm, <<>>, expected, out)
  /\ steps' = steps + 1
  /\ UNCHANGED <<fs, handles, nextIno>>
  /\ Frame

\* A caller that looks entries up in the directories it holds
NextFind ==
  \/ \E h \in Slots, nm \in FindNames, expected \in FindTypes : DoFind(h, nm, expected)
  \/ \E p \in EnvPaths, kind \in EnvKinds : EnvReplace(p, kind)

SpecFind == Init /\ [][NextFind]_vars

\* C11: Folder.find(name) returns no handle when name holds a path
\* separator, so a handle it returns is a direct child of the directory; for
\* a name without separator it returns a handle exactly when a direct child
\* of that name exists and is of the kind asked for, if one was asked for.
C11_FindDirectChild ==
  [][CallOf({"find"})
       => (/\ last'.err = "ok"
           /\ Len(last'.to) > 1 => last'.ret = NoHandle
           /\ last'.ret # NoHandle
                => Dirname(RealAt(fs, last'.ret.loc)) = RealAt(fs, Callee.loc)
           /\ Len(last'.to) = 1
                => (last'.ret # NoHandle
                     <=> (/\ KindAt(fs, Join(Callee.loc, last'.to)) # "None"
                          /\ last'.cls \in {"None", KindAt(fs, Join(Callee.loc, last'.to))})))]_vars

(***************************************************************************)
(* File.same_as.  The content of a file is a number that stands for its    *)
(* bytes: two files have the same bytes exactly when they have the same    *)
(* number.                                                                 *)
(***************************************************************************)
\* fs.readFileSync / fp.readFile: open(2) follows a symbolic link
OsReadFile(f, p) ==
  LET r == Lookup(f, p, TRUE) IN
  IF r.err # "ok" THEN [err |-> r.err, content |-> 0]
  ELSE IF IsDir(f[r.path]) THEN [err |-> "EISDIR", content |-> 0]
  ELSE [err |-> "ok", content |-> f[r.path].content]

\* File.same_as_sync / File.same_as
File_same_as(f, hd, other) ==
  LET thisBuffer == OsReadFile(f, hd.loc)
      otherBuffer == OsReadFile(f, other.loc)
  IN
  IF hd.loc # other.loc THEN Out("ok", f, 0, hd.loc, NoHandle, FALSE)
  ELSE IF thisBuffer.err # "ok" THEN Out(thisBuffer.err, f, 0, hd.loc, NoHandle, FALSE)
  ELSE IF otherBuffer.err # "ok" THEN Out(otherBuffer.err, f, 0, hd.loc, NoHandle, FALSE)
  ELSE Out("ok", f, 0, hd.loc, NoHandle, thisBuffer.content = otherBuffer.content)

FilePaths == {<<"a", "x">>, <<"t", "a", "y">>}
Contents == {1, 2}

\* The caller holds two File handles the factory gave
InitSame ==
  /\ \E special \in UnusableKinds :
       /\ fs = InitFs(special)
       /\ \E p1 \in FilePaths, p2 \in FilePaths :
            handles = (1 :> factory(fs, p1, FirstIno).ret) @@ (2 :> factory(fs, p2, FirstIno).ret)
  /\ last = NoCall
  /\ steps = 0
  /\ nextIno = FirstIno
  /\ mode = 0
  /\ result = "none"
  /\ it = NoIter
  /\ w = NoWatch
  /\ pending = NoPending
  /\ loop = NoLoop
  /\ live = NoLive
  /\ registry = NoRegistry

\* h.same_as_sync(i) / await h.same_as(i): the two forms make the same test
\* and the same reads
DoSameAs(h, i) ==
  /\ steps < MaxSteps
  /\ handles[h].cls = "File" /\ handles[i].cls = "File"
  /\ last' = Call(steps + 1, "same_as", "both", h, i, <<>>, <<>>, "None",
                  File_same_as(fs, handles[h], handles[i]))
  /\ steps' = steps + 1
  /\ UNCHANGED <<fs, handles, nextIno>>
  /\ Frame

\* Another process writes the bytes c to the file at p
EnvWrite(p, c) ==
  /\ steps < MaxSteps
  /\ p \in DOMAIN fs /\ IsReg(fs[p])
  /\ fs' = [fs EXCEPT ![p].content = c]
  /\ handles' = Touched(handles, 0, fs, fs')
  /\ last' = [NoCall EXCEPT !.n = steps + 1, !.op = "env", !.path = p]
  /\ steps' = steps + 1
  /\ UNCHANGED nextIno
  /\ Frame

NextSame ==
  \/ \E h \in Slots, i \in Slots : DoSameAs(h, i)
  \/ \E p \in FilePaths, c \in Contents : EnvWrite(p, c)
  \/ \E p \in EnvPaths, kind \in EnvKinds : EnvReplace(p, kind)

SpecSame == InitSame /\ [][NextSame]_vars

\* C12: sameAs(other) (either form) on two handles whose files can be read
\* returns false when the two handles have the same resolved path, and for
\* handles at different paths returns true exactly when the two files have
\* the same bytes.
C12_SameAsComparesContent ==
  [][(/\ CallOf({"same_as"})
      /\ OsReadFile(fs, Callee.loc).err = "ok"
      /\ OsReadFile(fs, IntoDir.loc).err = "ok")
       => (/\ last'.err = "ok"
           /\ last'.val = (/\ Callee.loc # IntoDir.loc
                            /\ OsReadFile(fs, Callee.loc).content
                                 = OsReadFile(fs, IntoDir.loc).content))]_vars

(***************************************************************************)
(* File.it_bytes_sync / File.it_bytes.  The file is a sequence of bytes;   *)
(* the generator reads it through one buffer of _chunkSize bytes and       *)
(* yields, after each read that gave bytes, a view of the front of that    *)
(* buffer (Buffer.subarray shares the memory of the buffer).               *)
(***************************************************************************)
MaxLen == 5
MaxChunk == 3
ByteValues == {1, 2}

RECURSIVE SeqsOf(_, _)
SeqsOf(S, n) ==
  IF n = 0 THEN {<<>>} ELSE {Append(q, b) : q \in SeqsOf(S, n - 1), b \in S}
FileContents == UNION {SeqsOf(ByteValues, n) : n \in 0..MaxLen}
Min(a, b) == IF a < b THEN a ELSE b

\* const fd = open(isAt, 'r'); const buffer = Buffer.alloc(_chunkSize)
Opened(content, chunkSize) ==
  [pc |-> "read", content |-> content, chunkSize |-> chunkSize, pos |-> 0,
   buffer |-> [i \in 1..chunkSize |-> 0], bytesRead |-> 0,
   chunks |-> <<>>, seen |-> <<>>]

InitBytes ==
  /\ fs = InitFs("Fifo")
  /\ handles = (1 :> factory(fs, <<"a", "x">>, FirstIno).ret) @@ (2 :> NoHandle)
  /\ last = NoCall
  /\ steps = 0
  /\ nextIno = FirstIno
  /\ mode = 0
  /\ result = "none"
  /\ \E content \in FileContents, chunkSize \in 1..MaxChunk : it = Opened(content, chunkSize)
  /\ w = NoWatch
  /\ pending = NoPending
  /\ loop = NoLoop
  /\ live = NoLive
  /\ registry = NoRegistry

Others == <<fs, handles, last, steps, nextIno, mode, result>>

\* bytesRead = read(fd, buffer, 0, _chunkSize, null): the bytes at the file
\* position go to the front of the buffer, the rest of the buffer stays;
\* without bytes the loop ends (0 is not _chunkSize) and finally closes fd
ItRead ==
  /\ it.pc = "read"
  /\ LET n == Min(it.chunkSize, Len(it.content) - it.pos) IN
       it' = [it EXCEPT
                !.buffer = [i \in 1..it.chunkSize |->
                              IF i <= n THEN it.content[it.pos + i] ELSE it.buffer[i]],
                !.bytesRead = n,
                !.pos = it.pos + n,
                !.pc = IF n > 0 THEN "yield" ELSE "closed"]
  /\ UNCHANGED <<Others, w, pending, loop, live, registry>>

\* yield buffer.subarray(0, bytesRead), and the consumer asks for the next
\* chunk: `while (bytesRead === _chunkSize)`.  chunks holds the views the
\* consumer was given (a view is a length: it shows the front of the
\* buffer), seen the bytes each view showed when it was given.
ItYield ==
  /\ it.pc = "yield"
  /\ it' = [it EXCEPT
               !.chunks = Append(it.chunks, it.bytesRead),
               !.seen = Append(it.seen, SubSeq(it.buffer, 1, it.bytesRead)),
               !.pc = IF it.bytesRead = it.chunkSize THEN "read" ELSE "closed"]
  /\ UNCHANGED <<Others, w, pending, loop, live, registry>>

NextBytes == ItRead \/ ItYield

SpecBytes == InitBytes /\ [][NextBytes]_vars

\* the bytes the i-th chunk the consumer holds shows now
ChunkBytes(i) == SubSeq(it.buffer, 1, it.chunks[i])
RECURSIVE Concat(_, _)
\* the first k of the chunks the consumer holds, concatenated
Concat(k, shown) ==
  IF k = 0 THEN <<>> ELSE Concat(k - 1, shown) \o (IF shown THEN ChunkBytes(k) ELSE it.seen[k])
CeilDiv(n, c) == (n + c - 1) \div c

\* C13: for a file of n bytes and a chunk size c >= 1 the iteration yields
\* ceil(n/c) chunks in file order, each of c bytes except a last one that
\* may be shorter, none empty, and the chunks concatenated in order are the
\* content of the file; also when n is a multiple of c.
C13_ChunksAreTheContent ==
  it.pc = "closed"
    => (/\ Len(it.chunks) = CeilDiv(Len(it.content), it.chunkSize)
        /\ \A i \in 1..Len(it.chunks) :
             /\ it.chunks[i] > 0
             /\ i < Len(it.chunks) => it.chunks[i] = it.chunkSize
             /\ it.chunks[i] <= it.chunkSize
        /\ Concat(Len(it.chunks), TRUE) = it.content)

(***************************************************************************)
(* TempFile / TempFolder.  os.tmpdir() is /t; the name the constructor     *)
(* makes up (time and a random UUID) is a name nothing has there.          *)
(***************************************************************************)
\* fs.writeFileSync(p, "") / fp.writeFile: open(2) with O_CREAT | O_TRUNC
OsWriteFile(f, p, content, next) ==
  LET r == Lookup(f, p, TRUE) IN
  IF r.err = "ok" THEN
    IF IsDir(f[r.path]) THEN St("EISDIR", f, next)
    ELSE St("ok", [f EXCEPT ![r.path].content = content], next)
  ELSE IF Creatable(r) THEN
    St("ok", With(f, r.path, Entry(ModeOf("File"), content, <<>>, next)), next + 1)
  ELSE St(r.err, f, next)

\* fs.mkdirSync(p, { recursive: true }) / fp.mkdir
OsMkdirRecursive(f, p, next) ==
  LET r == Lookup(f, p, TRUE) IN
  IF r.err = "ok" THEN
    IF IsDir(f[r.path]) THEN St("ok", f, next) ELSE St("EEXIST", f, next)
  ELSE IF r.err = "ENOENT" THEN MkdirChain(f, r.path, r.rest, next)
  ELSE St(r.err, f, next)

\* File.create_sync / File.create
File_create(f, at, next) ==
  LET made == IF OsAccess(f, at) = "ok" THEN St("ok", f, next)
              ELSE OsWriteFile(f, at, 0, next)
      new == Construct(made.fs, "File", at, made.next)
  IN
  IF made.err # "ok" THEN Out(made.err, f, next, <<>>, NoHandle, FALSE)
  ELSE Out(new.err, made.fs, made.next, <<>>, new.ret, FALSE)

\* Folder.create_sync / Folder.create
Folder_create(f, at, next) ==
  LET made == IF OsAccess(f, at) = "ok" THEN St("ok", f, next)
              ELSE OsMkdirRecursive(f, at, next)
      new == Construct(made.fs, "Folder", at, made.next)
  IN
  IF made.err # "ok" THEN Out(made.err, f, next, <<>>, NoHandle, FALSE)
  ELSE Out(new.err, made.fs, made.next, <<>>, new.ret, FALSE)

TmpDir == <<"t">>
TempFileName == <<"x">>
TempFolderName == <<"y">>

\* new TempFile(): super(File.create_sync(ph.join(os.tmpdir(), name)).isAt)
TempFile_new(f, next) ==
  LET made == File_create(f, Join(TmpDir, TempFileName), next)
      new == Construct(made.fs, "File", made.ret.loc, made.next)
  IN
  IF made.err # "ok" THEN made
  ELSE Out(new.err, made.fs, made.next, <<>>, new.ret, FALSE)

\* new TempFolder(): super(Folder.create_sync(ph.join(os.tmpdir(), name)).isAt)
TempFolder_new(f, next) ==
  LET made == Folder_create(f, Join(TmpDir, TempFolderName), next)
      new == Construct(made.fs, "Folder", made.ret.loc, made.next)
  IN
  IF made.err # "ok" THEN made
  ELSE Out(new.err, made.fs, made.next, <<>>, new.ret, FALSE)

\* TempFile[Symbol.dispose] / TempFile[Symbol.asyncDispose]
TempFile_dispose(f, hd, next) == File_delete(f, hd, next)
\* TempFolder[Symbol.dispose] / TempFolder[Symbol.asyncDispose]
TempFolder_dispose(f, hd, next) == Folder_delete(f, hd, next)

\* The caller has made a TempFile or a TempFolder
InitTemp ==
  /\ \E special \in UnusableKinds, new \in {"File", "Folder"} :
       LET made == IF new = "File" THEN TempFile_new(InitFs(special), FirstIno)
                   ELSE TempFolder_new(InitFs(special), FirstIno)
       IN /\ fs = made.fs
          /\ nextIno = made.next
          /\ handles = (1 :> made.ret) @@ (2 :> NoHandle)
  /\ last = NoCall
  /\ steps = 0
  /\ mode = 0
  /\ result = "none"
  /\ it = NoIter
  /\ w = NoWatch
  /\ pending = NoPending
  /\ loop = NoLoop
  /\ live = NoLive
  /\ registry = NoRegistry

\* the scope of h ends: h[Symbol.dispose]() / await h[Symbol.asyncDispose]();
\* the two hooks call delete_sync and delete, which make the same calls
DoDispose(h) ==
  /\ steps < MaxSteps
  /\ handles[h] # NoHandle
  /\ LET out == IF handles[h].cls = "File" THEN TempFile_dispose(fs, handles[h], nextIno)
                 ELSE TempFolder_dispose(fs, handles[h], nextIno)
     IN /\ Applied(h, out)
        /\ last' = Call(steps + 1, "dispose", "both", h, 0, <<>>, <<>>, "None", out)

TempPaths == {Join(TmpDir, TempFileName), Join(TmpDir, TempFolderName),
              Join(TmpDir, TempFolderName) \o <<"x">>}

NextTemp ==
  \/ \E h \in Slots : DoDispose(h)
  \/ \E p \in TempPaths, kind \in EnvKinds : EnvReplace(p, kind)

SpecTemp == InitTemp /\ [][NextTemp]_vars

\* C14: the scope-exit hook of a TempFile / TempFolder (either form) never
\* raises, also when the entry is no longer there or the hook runs a second
\* time, and when the entry is there it deletes it, so that exists() is
\* false afterwards.
C14_DisposeNeverRaises ==
  [][CallOf({"dispose"})
       => (/\ last'.err = "ok"
           /\ ~exists(fs', CalleeAfter).val
           /\ ~exists_sync(fs', CalleeAfter).val)]_vars

(***************************************************************************)
(* Road.until_accessible / Road.on_change.  fs.watch gives a watcher that  *)
(* emits 'change' for every notification of the kernel about the node;     *)
(* events.on(watcher, 'change', { signal }) adds the listener when it is   *)
(* called and keeps the events nobody has asked for yet in a queue; next() *)
(* of its iterator gives the queued events first, then the error of an     *)
(* abort, and waits otherwise.  An event without listener is dropped.      *)
(***************************************************************************)
MaxEvents == 3
S_IWUSR == 128

AccessModes == {"F_OK", "W_OK"}
WatchedPath == <<"a", "x">>

\* fs.accessSync(p, _mode) / fp.access(p, _mode): "ok" or the error code
OsAccessMode(f, p, amode) ==
  LET r == Lookup(f, p, TRUE) IN
  IF r.err # "ok" THEN r.err
  ELSE IF amode = "W_OK" /\ (f[r.path].mode \div S_IWUSR) % 2 = 0 THEN "EACCES"
  ELSE "ok"

\* Road.accessible_sync / Road.accessible: [err, val]
accessible(f, hd, amode) ==
  LET e == OsAccessMode(f, hd.loc, amode) IN
  IF e = "ok" THEN [err |-> "ok", val |-> TRUE]
  ELSE IF e \in {"ENOENT", "EACCES"} THEN [err |-> "ok", val |-> FALSE]
  ELSE [err |-> e, val |-> FALSE]

\* nothing has been called yet
IdleWatch ==
  [pc |-> "idle", op |-> "none", amode |-> "F_OK",
   watcher |-> "none",     \* the FSWatcher: none, open, closed
   watched |-> 0,          \* the ino the watcher watches
   listening |-> FALSE,    \* events.on has its listener on the watcher
   kernel |-> <<>>,        \* notifications the watcher has not emitted yet
   queue |-> <<>>,         \* events the iterator has not given out yet
   emitted |-> <<>>,       \* events the listener got
   lost |-> <<>>,          \* events emitted without listener
   calls |-> <<>>,         \* events whose callback was started
   running |-> 0,          \* callbacks being awaited
   aborted |-> FALSE,      \* the signal has fired
   error |-> "none",       \* the error the iterator throws next
   settled |-> "pending",  \* the promise the call returned
   err |-> "none",         \* what it was rejected with
   late |-> FALSE,         \* the callback was started after it settled
   changes |-> 0]          \* modifications of the node so far

InitWatch ==
  /\ \E writable \in BOOLEAN :
       fs = [InitFs("Fifo") EXCEPT ![WatchedPath].mode =
               IF writable THEN @ ELSE @ - S_IWUSR]
  /\ handles = (1 :> factory(InitFs("Fifo"), WatchedPath, FirstIno).ret) @@ (2 :> NoHandle)
  /\ last = NoCall
  /\ steps = 0
  /\ nextIno = FirstIno
  /\ mode = 0
  /\ result = "none"
  /\ it = NoIter
  /\ w = IdleWatch
  /\ pending = NoPending
  /\ loop = NoLoop
  /\ live = NoLive
  /\ registry = NoRegistry

Watched == handles[1]
WFrame == UNCHANGED <<handles, last, steps, nextIno, mode, result, it, pending, loop, live, registry>>

\* a finally block that leaves the watcher as it is
Leave_KeepsWatch(settled, err) ==
  [w EXCEPT !.pc = "done", !.listening = FALSE, !.settled = settled, !.err = err]

\* leaving the try block: finally { watcher.close() }, then the promise settles
Leave(settled, err) ==
  [w EXCEPT !.pc = "done", !.watcher = "closed", !.listening = FALSE,
            !.kernel = <<>>, !.settled = settled, !.err = err]

\* const watcher = fs.watch(this.isAt): throws when there is no node.
\* on_change goes on to events.on in the same turn; until_accessible first
\* awaits accessible(_mode).
WStart(op, amode) ==
  /\ w.pc = "idle"
  /\ LET r == Lookup(fs, Watched.loc, TRUE) IN
       w' = IF r.err # "ok"
            THEN [w EXCEPT !.pc = "done", !.op = op, !.amode = amode,
                           !.settled = "rejected", !.err = r.err]
            ELSE [w EXCEPT !.pc = IF op = "until_accessible" THEN "check" ELSE "next",
                           !.op = op, !.amode = amode, !.watcher = "open",
                           !.watched = fs[r.path].ino,
                           !.listening = (op = "on_change")]
  /\ UNCHANGED fs
  /\ WFrame

\* if (await this.accessible(_mode)) return: the access call is made
WCheck ==
  /\ w.pc = "check"
  /\ LET a == accessible(fs, Watched, w.amode) IN
       w' = IF a.err # "ok" THEN Leave("rejected", a.err)
            ELSE IF a.val THEN Leave("resolved", "none")
            ELSE [w EXCEPT !.pc = "listen"]
  /\ UNCHANGED fs
  /\ WFrame

\* the function goes on after the await: on(watcher, 'change', { signal })
\* throws for a signal that has fired and adds the listener otherwise
WListen ==
  /\ w.pc = "listen"
  /\ w' = IF w.aborted THEN Leave("rejected", "AbortError")
           ELSE [w EXCEPT !.pc = "next", !.listening = TRUE]
  /\ UNCHANGED fs
  /\ WFrame

\* for await: next() of the iterator gives a queued event, else throws the
\* error of the abort; with neither the loop waits
WNext ==
  /\ w.pc = "next"
  /\ w.queue # <<>> \/ w.error # "none"
  /\ w' = IF w.queue # <<>>
           THEN IF w.op = "until_accessible"
                THEN [w EXCEPT !.pc = "recheck", !.queue = Tail(w.queue)]
                ELSE [w EXCEPT !.pc = "callback", !.queue = Tail(w.queue),
                               !.calls = Append(w.calls, Head(w.queue)),
                               !.running = w.running + 1,
                               !.late = (w.settled # "pending")]
           ELSE Leave("rejected", w.error)
  /\ UNCHANGED fs
  /\ WFrame

\* if (await this.accessible(_mode)) return; else await _onEachAttempt?.()
WRecheck ==
  /\ w.pc = "recheck"
  /\ LET a == accessible(fs, Watched, w.amode) IN
       w' = IF a.err # "ok" THEN Leave("rejected", a.err)
            ELSE IF a.val THEN Leave("resolved", "none")
            ELSE [w EXCEPT !.pc = "callback", !.running = w.running + 1,
                           !.late = (w.settled # "pending")]
  /\ UNCHANGED fs
  /\ WFrame

\* the awaited _thenDo / _onEachAttempt returns, or throws
WCallback(throws) ==
  /\ w.pc = "callback"
  /\ w' = IF throws THEN [Leave("rejected", "CallbackError") EXCEPT !.running = w.running - 1]
           ELSE [w EXCEPT !.pc = "next", !.running = w.running - 1]
  /\ UNCHANGED fs
  /\ WFrame

\* the signal fires: events.on stores the AbortError (a waiting next() is
\* rejected with it) and removes its listener
WAbort ==
  /\ w.pc \notin {"idle", "done"}
  /\ ~w.aborted
  /\ w' = [w EXCEPT !.aborted = TRUE, !.listening = FALSE,
                     !.error = IF w.listening THEN "AbortError" ELSE w.error]
  /\ UNCHANGED fs
  /\ WFrame

\* a listener that drops the events that come while a callback is awaited
WEmit_DropsWhileBusy ==
  /\ w.watcher = "open"
  /\ w.kernel # <<>>
  /\ w' = IF w.listening
           THEN [w EXCEPT !.kernel = Tail(w.kernel),
                          !.queue = IF w.pc = "callback" THEN w.queue
                                    ELSE Append(w.queue, Head(w.kernel)),
                          !.emitted = Append(w.emitted, Head(w.kernel))]
           ELSE [w EXCEPT !.kernel = Tail(w.kernel),
                          !.lost = Append(w.lost, Head(w.kernel))]
  /\ UNCHANGED fs
  /\ WFrame

\* the watcher emits 'change' for the next notification of the kernel
WEmit ==
  /\ w.watcher = "open"
  /\ w.kernel # <<>>
  /\ w' = IF w.listening
           THEN [w EXCEPT !.kernel = Tail(w.kernel),
                          !.queue = Append(w.queue, Head(w.kernel)),
                          !.emitted = Append(w.emitted, Head(w.kernel))]
           ELSE [w EXCEPT !.kernel = Tail(w.kernel),
                          !.lost = Append(w.lost, Head(w.kernel))]
  /\ UNCHANGED fs
  /\ WFrame

\* the state of the watch after another process modified the node ino: the
\* kernel notifies the watcher of that node
Notified(ino) ==
  [w EXCEPT !.changes = w.changes + 1,
            !.kernel = IF w.watcher = "open" /\ w.watched = ino
                       THEN Append(w.kernel, w.changes + 1) ELSE w.kernel]

\* Another process makes the node writable or read-only (chmod)
WEnvChmod(writable) ==
  /\ w.changes < MaxEvents
  /\ WatchedPath \in DOMAIN fs
  /\ ((fs[WatchedPath].mode \div S_IWUSR) % 2 = 1) # writable
  /\ fs' = [fs EXCEPT ![WatchedPath].mode = IF writable THEN @ + S_IWUSR ELSE @ - S_IWUSR]
  /\ w' = Notified(fs[WatchedPath].ino)
  /\ WFrame

\* Another process removes the node
WEnvRemove ==
  /\ w.changes < MaxEvents
  /\ WatchedPath \in DOMAIN fs
  /\ fs' = Without(fs, {WatchedPath})
  /\ w' = Notified(fs[WatchedPath].ino)
  /\ WFrame

\* Another process creates a file at the path
WEnvCreate ==
  /\ w.changes < MaxEvents
  /\ WatchedPath \notin DOMAIN fs
  /\ fs' = With(fs, WatchedPath, Entry(ModeOf("File"), 0, <<>>, FirstIno + w.changes))
  /\ w' = Notified(0)
  /\ WFrame

NextWatch ==
  \/ \E op \in {"until_accessible", "on_change"}, amode \in AccessModes : WStart(op, amode)
  \/ WCheck
  \/ WListen
  \/ WNext
  \/ WRecheck
  \/ \E throws \in BOOLEAN : WCallback(throws)
  \/ WAbort
  \/ WEmit
  \/ \E writable \in BOOLEAN : WEnvChmod(writable)
  \/ WEnvRemove
  \/ WEnvCreate

SpecWatch == InitWatch /\ [][NextWatch]_vars

\* The event loop runs the continuation of a settled next(): a loop that can
\* go on from its for await does.
SpecWatchFair == SpecWatch /\ WF_vars(WNext)

\* the loop waits in next(): nothing queued, no error stored
Waiting == w.pc = "next" /\ w.queue = <<>> /\ w.error = "none"

\* C15: until_accessible loses no change notification made after the call
\* has started, so it never waits, with no notification left to come, on a
\* path that is accessible: it resolves once the path has become accessible.
C15_NoNotificationLost ==
  w.op = "until_accessible" /\ ~w.aborted /\ Waiting /\ w.kernel = <<>> =>
    ~accessible(fs, Watched, w.amode).val

\* C16: until_accessible of a handle whose path does not exist when it is
\* called does not fail with not-found: it waits for the path.
C16_MissingPathWaits ==
  ~(w.op = "until_accessible" /\ w.settled = "rejected" /\ w.err = "ENOENT")

\* C17: a settled until_accessible / on_change has closed its watch, whatever
\* ended the loop, and runs no callback afterwards; a cancellation that comes
\* while the loop waits makes its next step the rejection, and it settles.
C17_Settled ==
  w.settled # "pending" =>
    /\ w.pc = "done"
    /\ w.watcher # "open"
    /\ ~w.listening
    /\ w.running = 0
    /\ ~w.late

C17_CancelEnds ==
  /\ Waiting /\ w'.aborted /\ ~w.aborted => w'.pc = "next" /\ w'.error = "AbortError"
  /\ w.pc = "next" /\ w.queue = <<>> /\ w'.pc # "next" =>
       w'.settled = "rejected" /\ w'.err = "AbortError" /\ w'.watcher = "closed"
  /\ w.settled # "pending" => w'.calls = w.calls /\ w'.running = 0 /\ w'.settled = w.settled

C17_CancelClosesWatch ==
  /\ []C17_Settled
  /\ [][C17_CancelEnds]_vars
  /\ (w.aborted /\ w.pc = "next" /\ w.queue = <<>>) ~> (w.settled = "rejected")

\* a call ended by its cancellation while it waited, its watch closed
C17_Witness ==
  /\ w.settled = "rejected" /\ w.err = "AbortError"
  /\ w.watcher = "closed" /\ w.emitted # <<>>

\* C18: on_change starts one callback for every notification its listener
\* got, in that order, one at a time; what comes while a callback is awaited
\* is queued, and a loop ended by its cancellation has called for every one.
C18_OncePerNotification ==
  w.op = "on_change" =>
    /\ w.emitted = w.calls \o w.queue
    /\ w.running = (IF w.pc = "callback" THEN 1 ELSE 0)
    /\ ~w.aborted => w.lost = <<>>
    /\ w.err = "AbortError" => w.calls = w.emitted

\* a notification is queued while the callback of an earlier one is awaited,
\* after another callback has finished
C18_Witness ==
  /\ w.op = "on_change" /\ w.pc = "callback"
  /\ Len(w.calls) = 2 /\ w.queue # <<>>

(***************************************************************************)
(* SymbolicLink.create / create_sync and SymbolicLink.retarget /           *)
(* retarget_sync.  retarget makes two calls of the operating system, the   *)
(* unlink of delete and then symlink; other processes run between them,    *)
(* and the caller may be stopped there.                                    *)
(***************************************************************************)
\* the target "" of a link made without _target: no lookup finds an entry
EmptyTarget == <<"">>

\* SymbolicLink.create_sync(_at, _target?) / SymbolicLink.create.  symlink(2)
\* with the empty target fails with ENOENT on Linux; emptyOk is a platform
\* that makes the link.
SymbolicLink_create(f, at, target, emptyOk, next) ==
  LET r == IF OsAccess(f, at) = "ok" THEN St("ok", f, next)
           ELSE IF target # NoHandle THEN OsSymlink(f, target.loc, at, next)
           ELSE IF emptyOk THEN OsSymlink(f, EmptyTarget, at, next)
           ELSE St("ENOENT", f, next)
      made == Construct(r.fs, "SymbolicLink", at, r.next)
  IN
  IF r.err # "ok" THEN Out(r.err, f, next, <<>>, NoHandle, FALSE)
  ELSE Out(made.err, r.fs, r.next, <<>>, made.ret, FALSE)

\* a first step of retarget that leaves the link where it is
SymbolicLink_retarget_delete_KeepsLink(f, hd, next) ==
  Out(assert_mutable(hd), f, next, hd.loc, NoHandle, FALSE)

\* retarget, first step: this.assert_mutable(); this.delete_sync()
SymbolicLink_retarget_delete(f, hd, next) ==
  IF assert_mutable(hd) # "ok" THEN Thrown(assert_mutable(hd), f, next, hd)
  ELSE SymbolicLink_delete(f, hd, next)

\* retarget, second step: fs.symlinkSync(_newTarget.isAt, this.isAt)
SymbolicLink_retarget_link(f, hd, newTarget, next) ==
  LET r == OsSymlink(f, newTarget.loc, hd.loc, next) IN
  Out(r.err, r.fs, r.next, hd.loc, NoHandle, FALSE)

LinkPaths == {<<"l">>, <<"n">>, <<"a", "x">>}

\* The caller holds a File or Folder handle and the SymbolicLink handle of /l
InitLink ==
  /\ \E special \in UnusableKinds : fs = InitFs(special)
  /\ \E p \in {<<"a", "x">>, <<"t">>} :
       handles = (1 :> factory(InitFs("Fifo"), p, FirstIno).ret) @@
                 (2 :> Construct(InitFs("Fifo"), "SymbolicLink", <<"l">>, FirstIno).ret)
  /\ last = NoCall
  /\ steps = 0
  /\ nextIno = FirstIno
  /\ mode = 0
  /\ result = "none"
  /\ it = NoIter
  /\ w = NoWatch
  /\ pending = NoPending
  /\ loop = NoLoop
  /\ live = NoLive
  /\ registry = NoRegistry

\* SymbolicLink.create_sync(at, handles[t]) / await SymbolicLink.create(...);
\* t = 0: no _target is given
DoCreateLink(at, t) ==
  /\ steps < MaxSteps
  /\ t # 0 => handles[t] # NoHandle
  /\ \E emptyOk \in BOOLEAN :
       LET out == SymbolicLink_create(fs, at, IF t = 0 THEN NoHandle ELSE handles[t],
                                      emptyOk, nextIno)
       IN /\ fs' = out.fs
          /\ nextIno' = out.next
          /\ handles' = Kept(Touched(handles, 0, fs, out.fs), out.ret)
          /\ last' = Call(steps + 1, "create", "both", 0, t, <<>>, at, "SymbolicLink", out)
  /\ steps' = steps + 1
  /\ Frame

\* h.retarget_sync(handles[i]) / await h.retarget(handles[i]) up to the end
\* of its delete step
DoRetarget(h, i) ==
  /\ steps < MaxSteps
  /\ pending.pc = "none"
  /\ handles[h].cls = "SymbolicLink"
  /\ handles[i] # NoHandle
  /\ LET out == SymbolicLink_retarget_delete(fs, handles[h], nextIno) IN
       /\ fs' = out.fs
       /\ nextIno' = out.next
       /\ handles' = Touched(handles, h, fs, out.fs)
       /\ last' = Call(steps + 1, IF out.err = "ok" THEN "retarget_delete" ELSE "retarget",
                       "both", h, i, <<>>, <<>>, "None", out)
       /\ pending' = IF out.err = "ok" THEN [pc |-> "deleted", h |-> h, target |-> i]
                     ELSE pending
  /\ steps' = steps + 1
  /\ UNCHANGED <<mode, result, it, w, loop, live, registry>>

\* the symlink step of the retarget that has deleted the link
DoRetargetLink ==
  /\ steps <= MaxSteps
  /\ pending.pc = "deleted"
  /\ LET out == SymbolicLink_retarget_link(fs, handles[pending.h], handles[pending.target],
                                           nextIno)
     IN /\ fs' = out.fs
        /\ nextIno' = out.next
        /\ handles' = Touched(handles, pending.h, fs, out.fs)
        /\ last' = Call(steps + 1, "retarget", "both", pending.h, pending.target,
                        <<>>, <<>>, "None", out)
  /\ pending' = NoPending
  /\ steps' = steps + 1
  /\ UNCHANGED <<mode, result, it, w, loop, live, registry>>

NextLink ==
  \/ \E at \in LinkPaths, t \in {0} \cup Slots : DoCreateLink(at, t)
  \/ \E h \in Slots, i \in Slots : DoRetarget(h, i)
  \/ DoRetargetLink
  \/ \E h \in Slots : SetImmutable(h)
  \/ \E p \in LinkPaths, kind \in EnvKinds : EnvReplace(p, kind)

SpecLink == InitLink /\ [][NextLink]_vars

\* C19: SymbolicLink.create (either form) on a path where nothing is makes a
\* link there and gives back its SymbolicLink handle, with a target that
\* exists, with one that does not, and with none.
C19_CreateOnAbsent ==
  [][(CallOf({"create"}) /\ Creatable(Lookup(fs, last'.path, FALSE)))
       => (/\ last'.err = "ok"
           /\ last'.ret.cls = "SymbolicLink"
           /\ last'.ret.loc = last'.path
           /\ KindAt(fs', last'.path) = "SymbolicLink")]_vars

\* the location of the link a retarget is working on
RetargetLoc == handles[pending.h].loc

\* C20: after the delete step of a retarget, and until another call or
\* process puts something there, nothing is at the handle's location; the
\* second step, when it succeeds, leaves the link to the new target's location
\* there and everything else as it was, and when it fails changes nothing, so
\* the old link is not restored; the handle's location stays the same.
C20_BetweenSteps ==
  pending.pc = "deleted" /\ handles[pending.h].alone => KindAt(fs, RetargetLoc) = "None"

C20_SecondStep ==
  /\ CallOf({"retarget_delete"}) =>
       /\ KindAt(fs', Callee.loc) = "None"
       /\ CalleeAfter.loc = Callee.loc
  /\ (CallOf({"retarget"}) /\ pending.pc = "deleted") =>
       /\ handles'[pending.h].loc = RetargetLoc
       /\ last'.err = "ok" =>
            /\ KindAt(fs', RetargetLoc) = "SymbolicLink"
            /\ fs'[RetargetLoc].target = handles[pending.target].loc
            /\ \A q \in (DOMAIN fs \cup DOMAIN fs') \ {RetargetLoc} :
                 q \in DOMAIN fs /\ q \in DOMAIN fs' /\ fs'[q] = fs[q]
       /\ last'.err # "ok" => fs' = fs

C20_RetargetTwoSteps == []C20_BetweenSteps /\ [][C20_SecondStep]_vars

\* a retarget whose second step failed after another process had put a file
\* where the link was
C20_Witness ==
  /\ last.op = "retarget" /\ last.err = "EEXIST"
  /\ KindAt(fs, handles[last.h].loc) = "File"

(***************************************************************************)
(* Road.wait_for_existence_sync / Road.wait_for_existence: the two forms   *)
(* run side by side on the same answers of exists and the same moment of   *)
(* the abort.  abortAt is 0 for a signal that has fired before the call,   *)
(* k for one the k-th _onEachAttempt fires, NeverAborts for none.          *)
(***************************************************************************)
MaxAttempts == 3
NeverAborts == MaxAttempts + 1

\* one form of the loop: the attempts left, the exists calls and the
\* _onEachAttempt calls made, the signal, and how it ended
WaitRun(attempts, abortAt) ==
  [left |-> attempts, asked |-> 0, calls |-> 0, aborted |-> (abortAt = 0),
   outcome |-> "running"]

\* wait_for_existence_sync, one pass of while (--_attempts >= 0): exists_sync,
\* then the signal, then _onEachAttempt, then Atomics.wait
wait_for_existence_sync(r, results, abortAt) ==
  IF r.left - 1 < 0 THEN [r EXCEPT !.left = r.left - 1, !.outcome = "timed_out"]
  ELSE IF results[r.asked + 1]
    THEN [r EXCEPT !.left = r.left - 1, !.asked = r.asked + 1, !.outcome = "return"]
  ELSE IF r.aborted
    THEN [r EXCEPT !.left = r.left - 1, !.asked = r.asked + 1, !.outcome = "aborted"]
  ELSE [r EXCEPT !.left = r.left - 1, !.asked = r.asked + 1, !.calls = r.calls + 1,
                 !.aborted = (abortAt = r.calls + 1)]

\* wait_for_existence, one pass: await exists(), then _onEachAttempt, then
\* the signal, then await bs.sleep(_timeOutMs, _abortSignal)
wait_for_existence(r, results, abortAt) ==
  IF r.left - 1 < 0 THEN [r EXCEPT !.left = r.left - 1, !.outcome = "timed_out"]
  ELSE IF results[r.asked + 1]
    THEN [r EXCEPT !.left = r.left - 1, !.asked = r.asked + 1, !.outcome = "return"]
  ELSE [r EXCEPT !.left = r.left - 1, !.asked = r.asked + 1, !.calls = r.calls + 1,
                 !.aborted = (r.aborted \/ abortAt = r.calls + 1),
                 !.outcome = IF r.aborted \/ abortAt = r.calls + 1
                             THEN "aborted" ELSE "running"]

InitWait ==
  /\ fs = InitFs("Fifo")
  /\ handles = (1 :> NoHandle) @@ (2 :> NoHandle)
  /\ last = NoCall
  /\ steps = 0
  /\ nextIno = FirstIno
  /\ mode = 0
  /\ result = "none"
  /\ it = NoIter
  /\ w = NoWatch
  /\ pending = NoPending
  /\ live = NoLive
  /\ registry = NoRegistry
  /\ \E attempts \in 0..MaxAttempts, abortAt \in 0..NeverAborts,
        results \in [1..MaxAttempts -> BOOLEAN] :
       loop = [pc |-> "wait", attempts |-> attempts, abortAt |-> abortAt,
               results |-> results,
               sync |-> WaitRun(attempts, abortAt),
               async |-> WaitRun(attempts, abortAt)]

LoopFrame ==
  UNCHANGED <<fs, handles, last, steps, nextIno, mode, result, it, w, pending,
              live, registry>>

\* the blocking form makes its next pass
WaitSyncPass ==
  /\ loop.sync.outcome = "running"
  /\ loop' = [loop EXCEPT !.sync = wait_for_existence_sync(@, loop.results, loop.abortAt)]
  /\ LoopFrame

\* the awaitable form makes its next pass
WaitAsyncPass ==
  /\ loop.async.outcome = "running"
  /\ loop' = [loop EXCEPT !.async = wait_for_existence(@, loop.results, loop.abortAt)]
  /\ LoopFrame

NextWait == WaitSyncPass \/ WaitAsyncPass

SpecWait == InitWait /\ [][NextWait]_vars

\* C21: wait_for_existence_sync and wait_for_existence, on the same answers
\* of exists and the same moment of the abort, have called _onEachAttempt
\* the same number of times and ended the same way when both have ended.
C21_FormsAgree ==
  (loop.sync.outcome # "running" /\ loop.async.outcome # "running") =>
    /\ loop.sync.calls = loop.async.calls
    /\ loop.sync.outcome = loop.async.outcome

(***************************************************************************)
(* retry(_fn, _maxAttempts, _callbackOnError?, _abortSignal?).  The calls  *)
(* of _fn are numbered; the error of the k-th call is k.                   *)
(***************************************************************************)
\* the call retry(_fn, max, _callbackOnError, signal) before its first test
Retrying(max, hasCallback, aborted) ==
  [pc |-> "test", max |-> max, hasCallback |-> hasCallback,
   left |-> max,            \* _maxAttempts
   aborted |-> aborted,     \* _abortSignal.aborted
   by |-> IF aborted THEN "before" ELSE "none",   \* who fired the signal
   fnCalls |-> 0, failed |-> 0, errCalls |-> 0,
   result |-> [kind |-> "none", of |-> 0]]

Ended(l, kind, of) == [l EXCEPT !.pc = "done", !.result = [kind |-> kind, of |-> of]]

\* a test that takes the signal for the end of the attempts
retry_test_AbortIsExceeded(l) ==
  LET left == l.left - 1 IN
  IF left >= 0 /\ ~l.aborted THEN [l EXCEPT !.pc = "call", !.left = left]
  ELSE Ended([l EXCEPT !.left = left], "MaxAttemptsExceeded", 0)

\* while (--_maxAttempts >= 0 && !(_abortSignal?.aborted ?? false)), and the
\* two throws after the loop
retry_test(l) ==
  LET left == l.left - 1 IN
  IF left >= 0 /\ ~l.aborted THEN [l EXCEPT !.pc = "call", !.left = left]
  ELSE IF left < 0 THEN Ended([l EXCEPT !.left = left], "MaxAttemptsExceeded", 0)
  ELSE Ended([l EXCEPT !.left = left], "OperationAborted", 0)

\* a catch that calls the callback after the last attempt too
retry_call_CallbackAfterLast(l, ok) ==
  LET k == l.fnCalls + 1 IN
  IF ok THEN Ended([l EXCEPT !.fnCalls = k], "value", k)
  ELSE IF l.hasCallback
    THEN [l EXCEPT !.fnCalls = k, !.failed = l.failed + 1, !.pc = "onError"]
  ELSE IF l.left = 0
    THEN Ended([l EXCEPT !.fnCalls = k, !.failed = l.failed + 1], "error", k)
  ELSE [l EXCEPT !.fnCalls = k, !.failed = l.failed + 1, !.pc = "test"]

\* try { return await _fn() } catch (err) { if (_maxAttempts === 0) throw err
\* ...: the call of _fn returns (ok) or throws
retry_call(l, ok) ==
  LET k == l.fnCalls + 1 IN
  IF ok THEN Ended([l EXCEPT !.fnCalls = k], "value", k)
  ELSE IF l.left = 0
    THEN Ended([l EXCEPT !.fnCalls = k, !.failed = l.failed + 1], "error", k)
  ELSE [l EXCEPT !.fnCalls = k, !.failed = l.failed + 1,
                 !.pc = IF l.hasCallback THEN "onError" ELSE "test"]

\* await _callbackOnError?.(): the callback returns, fires the signal and
\* returns, or throws
retry_onError(l, does) ==
  IF does = "throws" THEN Ended([l EXCEPT !.errCalls = l.errCalls + 1], "callback", l.errCalls + 1)
  ELSE IF does = "aborts" /\ ~l.aborted
    THEN [l EXCEPT !.errCalls = l.errCalls + 1, !.pc = "test",
                   !.aborted = TRUE, !.by = "onError"]
  ELSE [l EXCEPT !.errCalls = l.errCalls + 1, !.pc = "test"]

InitRetry ==
  /\ fs = InitFs("Fifo")
  /\ handles = (1 :> NoHandle) @@ (2 :> NoHandle)
  /\ last = NoCall
  /\ steps = 0
  /\ nextIno = FirstIno
  /\ mode = 0
  /\ result = "none"
  /\ it = NoIter
  /\ w = NoWatch
  /\ pending = NoPending
  /\ live = NoLive
  /\ registry = NoRegistry
  /\ \E max \in 0..MaxAttempts, hasCallback \in BOOLEAN, aborted \in BOOLEAN :
       loop = Retrying(max, hasCallback, aborted)

RetryTest ==
  /\ loop.pc = "test"
  /\ loop' = retry_test(loop)
  /\ LoopFrame

RetryCall(ok) ==
  /\ loop.pc = "call"
  /\ loop' = retry_call(loop, ok)
  /\ LoopFrame

RetryOnError(does) ==
  /\ loop.pc = "onError"
  /\ loop' = retry_onError(loop, does)
  /\ LoopFrame

\* the caller fires the signal while retry awaits _fn or the callback
RetryAbort ==
  /\ loop.pc \in {"call", "onError"}
  /\ ~loop.aborted
  /\ loop' = [loop EXCEPT !.aborted = TRUE, !.by = "caller"]
  /\ LoopFrame

NextRetry ==
  \/ RetryTest
  \/ \E ok \in BOOLEAN : RetryCall(ok)
  \/ \E does \in {"returns", "aborts", "throws"} : RetryOnError(does)
  \/ RetryAbort

SpecRetry == InitRetry /\ [][NextRetry]_vars

\* C22: retry with _maxAttempts >= 1 calls _fn at most _maxAttempts times;
\* the first call that succeeds ends it with that call's result; when
\* _maxAttempts calls have failed it ends with the error of the last one; the
\* callback has run once for every failed call but the last permitted one;
\* an error of the callback ends it with that error; nothing runs after the end.
C22_Counts ==
  loop.max >= 1 =>
    /\ loop.fnCalls <= loop.max
    /\ loop.fnCalls <= loop.max - loop.left
    /\ loop.result.kind = "value" => loop.result.of = loop.fnCalls /\ loop.failed = loop.fnCalls - 1
    /\ loop.result.kind # "value" => loop.failed = loop.fnCalls
    /\ loop.failed = loop.max => loop.pc = "done" /\ loop.result = [kind |-> "error", of |-> loop.max]
    /\ loop.result.kind = "error" => loop.failed = loop.max /\ loop.result.of = loop.max
    /\ loop.hasCallback =>
         loop.errCalls = loop.failed - (IF loop.pc = "onError" \/ loop.result.kind = "error"
                                        THEN 1 ELSE 0)
    /\ ~loop.hasCallback => loop.errCalls = 0
    /\ loop.result.kind = "callback" => loop.result.of = loop.errCalls

C22_Ends ==
  /\ loop.pc = "done" => loop' = loop
  /\ (loop.pc = "call" /\ loop'.fnCalls = loop.fnCalls + 1 /\ loop'.failed = loop.failed)
       => loop'.pc = "done" /\ loop'.result = [kind |-> "value", of |-> loop'.fnCalls]
  /\ (loop.pc = "onError" /\ loop'.result.kind = "callback") => loop'.pc = "done"

C23_State ==
  /\ (loop.max = 0 /\ loop.pc = "done") =>
       loop.result.kind = "MaxAttemptsExceeded" /\ loop.fnCalls = 0
  /\ loop.result.kind = "MaxAttemptsExceeded" => loop.max = 0
  /\ loop.result.kind = "OperationAborted" => loop.aborted /\ loop.pc = "done"
  /\ (loop.by = "before" /\ loop.max >= 1) => loop.fnCalls = 0

C23_Step ==
  (loop.pc = "test" /\ loop.aborted /\ loop.left >= 1 /\ loop' # loop) =>
     /\ loop'.pc = "done"
     /\ loop'.result.kind = "OperationAborted"
     /\ loop'.fnCalls = loop.fnCalls

C23_AbortBeforeAttempt == []C23_State /\ [][C23_Step]_vars

\* the callback fired the signal after the first failure: no second call
C23_Witness ==
  /\ loop.pc = "done" /\ loop.by = "onError"
  /\ loop.result.kind = "OperationAborted"
  /\ loop.fnCalls = 1 /\ loop.errCalls = 1

(***************************************************************************)
(* LiveFile: the constructor starts                                        *)
(*   while (!signal.aborted) { await this.update();                        *)
(*                             await this.on_change(signal) }              *)
(* and dispose fires the signal.  on_change is the loop modelled above: it *)
(* ends only by a rejection, which ends the function that awaits it.       *)
(***************************************************************************)
\* new LiveFile(_at): lastReadContent is empty, the first read is under way
Living ==
  [pc |-> "update", lastReadContent |-> 0, reads |-> 0, disposed |-> FALSE]

InitLive ==
  /\ fs = InitFs("Fifo")
  /\ handles = (1 :> factory(InitFs("Fifo"), WatchedPath, FirstIno).ret) @@ (2 :> NoHandle)
  /\ last = NoCall
  /\ steps = 0
  /\ nextIno = FirstIno
  /\ mode = 0
  /\ result = "none"
  /\ it = NoIter
  /\ w = IdleWatch
  /\ pending = NoPending
  /\ loop = NoLoop
  /\ live = Living
  /\ registry = NoRegistry

LiveFrame ==
  UNCHANGED <<fs, handles, last, steps, nextIno, mode, result, it, pending, loop, registry>>

\* this.on_change(signal) up to its first await, for a signal that has or
\* has not fired: fs.watch, then on(watcher, 'change', { signal })
on_change(f, hd, aborted) ==
  LET r == Lookup(f, hd.loc, TRUE) IN
  IF r.err # "ok"
    THEN [w EXCEPT !.pc = "done", !.op = "on_change", !.settled = "rejected", !.err = r.err]
  ELSE IF aborted
    THEN [w EXCEPT !.pc = "done", !.op = "on_change", !.watcher = "closed",
                   !.aborted = TRUE, !.settled = "rejected", !.err = "AbortError"]
  ELSE [w EXCEPT !.pc = "next", !.op = "on_change", !.watcher = "open",
                 !.watched = f[r.path].ino, !.listening = TRUE]

\* await this.update(): the read ends, lastReadContent is what it read, and
\* the loop goes on to on_change; a read that fails ends the loop
LiveUpdate ==
  /\ live.pc = "update"
  /\ LET rd == OsReadFile(fs, Watched.loc) IN
       IF rd.err # "ok"
       THEN /\ live' = [live EXCEPT !.pc = "stopped", !.reads = live.reads + 1]
            /\ w' = w
       ELSE /\ live' = [live EXCEPT !.pc = "watching", !.reads = live.reads + 1,
                                    !.lastReadContent = rd.content]
            /\ w' = on_change(fs, Watched, live.disposed)
  /\ LiveFrame

\* the callback on_change awaits for an event: LiveFile gives none (an empty
\* one in the older variant)
LiveCallback ==
  /\ live.pc = "watching"
  /\ WCallback(FALSE)

\* on_change has settled: it was rejected, and so is the loop's function
LiveEnd ==
  /\ live.pc = "watching" /\ w.pc = "done"
  /\ live' = [live EXCEPT !.pc = IF w.settled = "rejected" THEN "stopped" ELSE "update"]
  /\ w' = w
  /\ LiveFrame

\* [Symbol.dispose]() / [Symbol.asyncDispose](): this.abortController.abort()
LiveDispose ==
  /\ ~live.disposed
  /\ live' = [live EXCEPT !.disposed = TRUE]
  /\ w' = IF w.pc \in {"idle", "done"} THEN w
          ELSE [w EXCEPT !.aborted = TRUE, !.listening = FALSE,
                         !.error = IF w.listening THEN "AbortError" ELSE w.error]
  /\ LiveFrame

\* Another process writes the bytes c to the file
LiveWrite(c) ==
  /\ w.changes < MaxEvents
  /\ WatchedPath \in DOMAIN fs
  /\ fs[WatchedPath].content # c
  /\ fs' = [fs EXCEPT ![WatchedPath].content = c]
  /\ w' = Notified(fs[WatchedPath].ino)
  /\ WFrame

NextLive ==
  \/ LiveUpdate
  \/ LiveCallback
  \/ LiveEnd
  \/ LiveDispose
  \/ \E c \in Contents : LiveWrite(c)
  \/ WNext
  \/ WEmit

SpecLive == InitLive /\ [][NextLive]_vars

\* C24: a LiveFile that has not been disposed and has taken every change
\* notification of its file holds the file's content in lastReadContent.
C24_ReloadsAfterChange ==
  (~live.disposed /\ live.pc = "watching" /\ Waiting /\ w.kernel = <<>>) =>
     live.lastReadContent = OsReadFile(fs, Watched.loc).content

(***************************************************************************)
(* A class of the caller that extends Road itself and implements the       *)
(* abstract operations: class TestRoad extends Road { ... }.  It is none   *)
(* of the constructors roadType gives, nor a subclass of one.              *)
(***************************************************************************)
CustomClass == "TestRoad"

\* new TestRoad(p): the constructor of Road
DoConstructCustom(p) ==
  /\ steps < MaxSteps
  /\ LET out == Construct(fs, CustomClass, p, nextIno) IN
       /\ handles' = Kept(handles, out.ret)
       /\ last' = Call(steps + 1, "construct", "sync", 0, 0, <<>>, p, CustomClass, out)
  /\ steps' = steps + 1
  /\ UNCHANGED <<fs, nextIno>>
  /\ Frame

NextCustom ==
  \/ \E p \in ProbePaths : DoConstructCustom(p)
  \/ \E p \in EnvPaths, kind \in EnvKinds : EnvReplace(p, kind)

SpecCustom == Init /\ [][NextCustom]_vars

\* C25: constructing a class of the caller that extends Road, on a path where
\* a regular file is, succeeds with the resolved path as location.
C25_CustomSubclassConstructs ==
  [][(CallOf({"construct"}) /\ last'.cls = CustomClass /\ KindAt(fs, last'.path) = "File")
       => (/\ last'.err = "ok"
           /\ last'.ret.cls = CustomClass
           /\ last'.ret.loc = Resolve(last'.path))]_vars

(***************************************************************************)
(* File.create / File.create_sync in two steps: the access probe, then the *)
(* write (when the probe failed) and the construction of the handle.       *)
(* Another task or process runs between the two.                           *)
(***************************************************************************)
CreatePaths == {<<"n">>, <<"a", "x">>}

\* try { await fp.access(_at, F_OK) }: the probe has answered
DoCreateCheck(at) ==
  /\ steps < MaxSteps
  /\ pending.pc = "none"
  /\ pending' = [pc |-> "checked", h |-> 0, target |-> 0, at |-> at,
                 found |-> (OsAccess(fs, at) = "ok")]
  /\ last' = [NoCall EXCEPT !.n = steps + 1, !.op = "create_check", !.path = at]
  /\ steps' = steps + 1
  /\ UNCHANGED <<fs, handles, nextIno, mode, result, it, w, loop, live, registry>>

\* catch { await fp.writeFile(_at, "") }; return new File(_at)
DoCreateFinish ==
  /\ steps <= MaxSteps
  /\ pending.pc = "checked"
  /\ LET made == IF pending.found THEN St("ok", fs, nextIno)
                 ELSE OsWriteFile(fs, pending.at, 0, nextIno)
         new == Construct(made.fs, "File", pending.at, made.next)
         out == IF made.err # "ok" THEN Out(made.err, fs, nextIno, <<>>, NoHandle, FALSE)
                ELSE Out(new.err, made.fs, made.next, <<>>, new.ret, FALSE)
     IN /\ fs' = out.fs
        /\ nextIno' = out.next
        /\ handles' = Kept(Touched(handles, 0, fs, out.fs), out.ret)
        /\ last' = Call(steps + 1, "create_file", "both", 0, 0, <<>>, pending.at, "File", out)
  /\ pending' = NoPending
  /\ steps' = steps + 1
  /\ UNCHANGED <<mode, result, it, w, loop, live, registry>>

\* Another task or process runs writeFile(p, c): the file is made when it is
\* not there
OtherWrites(p, c) ==
  /\ steps < MaxSteps
  /\ LET out == OsWriteFile(fs, p, c, nextIno) IN
       /\ out.err = "ok"
       /\ fs' = out.fs
       /\ nextIno' = out.next
       /\ handles' = Touched(handles, 0, fs, out.fs)
  /\ last' = [NoCall EXCEPT !.n = steps + 1, !.op = "env", !.path = p]
  /\ steps' = steps + 1
  /\ Frame

NextCreate ==
  \/ \E at \in CreatePaths : DoCreateCheck(at)
  \/ DoCreateFinish
  \/ \E p \in CreatePaths, c \in Contents : OtherWrites(p, c)
  \/ \E p \in EnvPaths, kind \in EnvKinds : EnvReplace(p, kind)

SpecCreate == Init /\ [][NextCreate]_vars

\* C26: File.create (either form) leaves the content of every regular file
\* that exists when it writes as it is, whatever happened since its probe.
C26_CreateKeepsContent ==
  [][CallOf({"create_file"})
       => \A q \in DOMAIN fs :
            IsReg(fs[q]) => (q \in DOMAIN fs' /\ fs'[q].content = fs[q].content)]_vars

\* the path this step's move or rename gives the entry
Destination ==
  IF last'.op = "move" THEN Join(IntoDir.loc, Basename(Callee.loc))
  ELSE Join(Dirname(Callee.loc), last'.to)

\* C27: a move or a rename (either form) whose destination path holds another
\* entry fails and leaves the filesystem, with both entries, as it was.
C27_DestinationKept ==
  [][(/\ CallOf({"move", "rename"})
      /\ Callee.cls \in UsableKinds
      /\ InoAt(fs, Destination) # 0
      /\ InoAt(fs, Destination) # InoAt(fs, Callee.loc))
       => (last'.err # "ok" /\ fs' = fs)]_vars

(***************************************************************************)
(* exists_sync / exists in two steps: the presence probe (fs.existsSync,   *)
(* fp.access), then the classification (roadType: lstat).  Another process *)
(* runs between the two.                                                   *)
(***************************************************************************)
\* the second half of exists_sync / exists, after a probe that answered found
exists_classify(f, hd, form, found) ==
  LET st == OsLstat(f, hd.loc)
      failed == st.err # "ok" \/ roadType(st.mode) = UnknownMode
  IN
  IF ~found THEN Out("ok", f, 0, hd.loc, NoHandle, FALSE)
  ELSE IF failed /\ form = "async" THEN Out("ok", f, 0, hd.loc, NoHandle, FALSE)
  ELSE IF st.err # "ok" THEN Out(st.err, f, 0, hd.loc, NoHandle, FALSE)
  ELSE IF failed THEN Out(UnknownMode, f, 0, hd.loc, NoHandle, FALSE)
  ELSE Out("ok", f, 0, hd.loc, NoHandle, InstanceOf(hd.cls, roadType(st.mode)))

\* fs.existsSync(this.isAt) / await fp.access(this.isAt, F_OK) has answered
DoExistsProbe(h, form) ==
  /\ steps < MaxSteps
  /\ pending.pc = "none"
  /\ handles[h] # NoHandle
  /\ pending' = [pc |-> "probed", h |-> h, target |-> 0, form |-> form,
                 found |-> (OsAccess(fs, handles[h].loc) = "ok")]
  /\ last' = [NoCall EXCEPT !.n = steps + 1, !.op = "exists_probe", !.h = h, !.form = form]
  /\ steps' = steps + 1
  /\ UNCHANGED <<fs, handles, nextIno, mode, result, it, w, loop, live, registry>>

\* this instanceof roadType(this.isAt), and the end of the call
DoExistsClassify ==
  /\ steps <= MaxSteps
  /\ pending.pc = "probed"
  /\ LET out == exists_classify(fs, handles[pending.h], pending.form, pending.found) IN
       last' = Call(steps + 1, "exists", pending.form, pending.h, 0, <<>>, <<>>, "None", out)
  /\ pending' = NoPending
  /\ steps' = steps + 1
  /\ UNCHANGED <<fs, handles, nextIno, mode, result, it, w, loop, live, registry>>

NextExists ==
  \/ \E h \in Slots, form \in Forms : DoExistsProbe(h, form)
  \/ DoExistsClassify
  \/ \E p \in EnvPaths, kind \in EnvKinds : EnvReplace(p, kind)

SpecExists == Init /\ [][NextExists]_vars

\* C28: exists and exists_sync end with a boolean and never throw, whatever
\* another process does to the entry between the probe and the classification.
C28_ExistsNeverThrows ==
  last.op = "exists" => last.err = "ok"

\* C29: every chunk the consumer of it_bytes_sync / it_bytes holds shows the
\* bytes it showed when it was yielded, whatever was read since.
C29_ChunksKeepTheirBytes ==
  \A i \in 1..Len(it.chunks) : ChunkBytes(i) = it.seen[i]

(***************************************************************************)
(* HTTP2ClientSessionHandler and openSessions, a Map keyed by URL objects: *)
(* a Map finds a key that is an object by its identity.  async_create      *)
(* makes a new URL object for every call.                                  *)
(***************************************************************************)
MaxHandlers == 3
MaxDisposals == 2

\* the URL objects of the caller and the address each one holds
Href == <<"A", "A", "B">>
UrlObjects == DOMAIN Href

\* openSessions is empty, no handler and no session has been made
Registered ==
  [pc |-> "open",
   open |-> [u \in {} |-> 0],   \* openSessions: URL object -> [session, refCount]
   handlers |-> <<>>,           \* the handlers made: [url, disposals]
   sessions |-> 0,              \* sessions made by h2.connect
   closed |-> {},               \* sessions closed by a handler
   err |-> "ok"]                \* what the last call threw

\* new HTTP2ClientSessionHandler(u) for the URL object u;
\* HTTP2ClientSessionHandler.async_create(href) is this with a new object
connect(r, u) ==
  LET had == u \in DOMAIN r.open
      entry == IF had THEN r.open[u] ELSE [session |-> r.sessions + 1, refCount |-> 0]
  IN
  [r EXCEPT !.open = [v \in DOMAIN r.open \cup {u} |->
                        IF v = u THEN [entry EXCEPT !.refCount = @ + 1] ELSE r.open[v]],
            !.sessions = IF had THEN @ ELSE @ + 1,
            !.handlers = Append(@, [url |-> u, disposals |-> 0]),
            !.err = "ok"]

\* handler[Symbol.dispose]() / await handler[Symbol.asyncDispose]()
dispose(r, i) ==
  LET u == r.handlers[i].url
      mark == [r EXCEPT !.handlers[i].disposals = @ + 1]
  IN
  IF u \notin DOMAIN r.open THEN [mark EXCEPT !.err = "NoSession"]
  ELSE IF r.open[u].refCount - 1 <= 0
    THEN [mark EXCEPT !.err = "ok", !.closed = @ \cup {r.open[u].session},
                      !.open = [v \in DOMAIN r.open \ {u} |-> r.open[v]]]
  ELSE [mark EXCEPT !.err = "ok", !.open[u].refCount = @ - 1]

InitRegistry ==
  /\ fs = InitFs("Fifo")
  /\ handles = (1 :> NoHandle) @@ (2 :> NoHandle)
  /\ last = NoCall
  /\ steps = 0
  /\ nextIno = FirstIno
  /\ mode = 0
  /\ result = "none"
  /\ it = NoIter
  /\ w = NoWatch
  /\ pending = NoPending
  /\ loop = NoLoop
  /\ live = NoLive
  /\ registry = Registered

RegistryFrame ==
  UNCHANGED <<fs, handles, last, steps, nextIno, mode, result, it, w, pending, loop, live>>

NewHandler(u) ==
  /\ Len(registry.handlers) < MaxHandlers
  /\ registry' = connect(registry, u)
  /\ RegistryFrame

Dispose(i) ==
  /\ i \in DOMAIN registry.handlers
  /\ registry.handlers[i].disposals < MaxDisposals
  /\ registry' = dispose(registry, i)
  /\ RegistryFrame

NextRegistry ==
  \/ \E u \in UrlObjects : NewHandler(u)
  \/ \E i \in 1..MaxHandlers : Dispose(i)

SpecRegistry == InitRegistry /\ [][NextRegistry]_vars

\* the handlers made for the address a and not disposed
Undisposed(a) ==
  {i \in DOMAIN registry.handlers :
     Href[registry.handlers[i].url] = a /\ registry.handlers[i].disposals = 0}
\* the keys openSessions holds for the address a
EntriesFor(a) == {u \in DOMAIN registry.open : Href[u] = a}

\* C30: for every address, openSessions holds no entry when no handler made
\* for it is undisposed, and otherwise one entry, whose refCount is the number
\* of those handlers and whose session, which they share, is not closed.
C30_RefCountIsLiveHandlers ==
  \A a \in {Href[u] : u \in UrlObjects} :
    IF Undisposed(a) = {} THEN EntriesFor(a) = {}
    ELSE /\ Cardinality(EntriesFor(a)) = 1
         /\ \A u \in EntriesFor(a) :
              /\ registry.open[u].refCount = Cardinality(Undisposed(a))
              /\ registry.open[u].session \notin registry.closed

====
